---- MODULE Spec2Model ----
(***************************************************************************)
(* A model of dhcplib: the DHCP option codec (src/src/convert.rs), the     *)
(* tag-indexed option set and the per-tag option dispatch                  *)
(* (src/src/option.rs), the fixed-header packet (src/src/dhcp.rs) and the  *)
(* message-role constructors and transitions (src/src/messaging.rs).       *)
(*                                                                         *)
(* Bytes are naturals below 256 and byte strings are sequences of them.    *)
(* An IPv4 address is the sequence of its four octets.  A DhcpOption is a  *)
(* record [kind, val]: kind names the enum variant, val is its payload.    *)
(* A Rust Result is a record [res, val] with res one of "Ok", "Err" and    *)
(* "Panic"; a panic (an out-of-range index or slice) is an outcome of its  *)
(* own, so that "returns an error" and "aborts" stay distinct.             *)
(***************************************************************************)
EXTENDS Integers, Sequences, FiniteSets, TLC

(* Option tags: src/src/option.rs 14-95 (RFC 2132, RFC 3046). *)
OPTIONS_SIZE == 256
PAD == 0
SUBNET_MASK == 1
TIME_OFFSET == 2
ROUTER == 3
TIME_SERVER == 4
NAME_SERVER == 5
DOMAIN_NAME_SERVER == 6
LOG_SERVER == 7
COOKIE_SERVER == 8
LPR_SERVER == 9
IMPRESS_SERVER == 10
RESOURCE_LOCATION_SERVER == 11
HOST_NAME == 12
BOOT_FILE_SIZE == 13
MERIT_DUMP_FILE == 14
DOMAIN_NAME == 15
SWAP_SERVER == 16
ROOT_PATH == 17
EXTENSION_PATH == 18
IP_FORWARDING == 19
NON_LOCAL_SOURCE_ROUTING == 20
POLICY_FILTER == 21
MAXIMUM_DATAGRAM_REASSEMBLY_SIZE == 22
DEFAULT_IP_TTL == 23
PATH_MTU_AGING_TIMEOUT == 24
PATH_MTU_PLATEAU_TABLE == 25
INTERFACE_MTU == 26
ALL_SUBNETS_LOCAL == 27
BROADCAST_ADDRESS == 28
PERFORM_MASK_DISCOVERY == 29
MASK_SUPPLIER == 30
PERFORM_ROUTER_DISCOVERY == 31
ROUTER_SOLICITATION_ADDRESS == 32
STATIC_ROUTE == 33
TRAILER_ENCAPSULATION == 34
ARP_CACHE_TIMEOUT == 35
ETHERNET_ENCAPSULATION == 36
TCP_DEFAULT_TTL == 37
TCP_KEEPALIVE_INTERVAL == 38
TCP_KEEPALIVE_GARGABE == 39
NETWORK_INFORMATION_SERVICE_DOMAIN == 40
NETWORK_INFORMATION_SERVERS == 41
NETWORK_TIME_PROTOCOL_SERVERS == 42
VENDOR_SPECIFIC == 43
NETBIOS_OVER_TCP_IP_NAME_SERVER == 44
NETBIOS_OVER_TCP_IP_DATAGRAM_DISTRIBUTION_SERVER == 45
NETBIOS_OVER_TCP_IP_NODE_TYPE == 46
NETBIOS_OVER_TCP_IP_SCOPE == 47
X_WINDOW_SYSTEM_FONT_SERVER == 48
X_WINDOW_SYSTEM_DISPLAY_MANAGER == 49
REQUESTED_IP_ADDRESS == 50
IP_ADDRESS_LEASE_TIME == 51
OPTION_OVERLOAD == 52
MESSAGE_TYPE == 53
SERVER_IDENTIFIER == 54
PARAMETER_REQUEST_LIST == 55
MESSAGE == 56
MAXIMUM_DHCP_MESSAGE_SIZE == 57
RENEWAL_TIME_VALUE == 58
REBINDING_TIME_VALUE == 59
VENDOR_CLASS_IDENTIFIER == 60
CLIENT_IDENTIFIER == 61
NETWORK_INFORMATION_SERVICE_PLUS_DOMAIN == 64
NETWORK_INFORMATION_SERVICE_PLUS_SERVERS == 65
TFTP_SERVER_NAME == 66
BOOT_FILE_NAME == 67
MOBILE_IP_HOME_AGENT == 68
SMTP_SERVER == 69
POP3_SERVER == 70
NNTP_SERVER == 71
WWW_SERVER == 72
FINGER_SERVER == 73
IRC_SERVER == 74
STREET_TALK_SERVER == 75
STREET_TALK_DIRECTORY_ASSISTANCE == 76
END == 255
RELAY_AGENT_INFORMATION == 82

(* The payload type each variant of enum DhcpOption carries (option.rs 429-507).
   It selects, as Rust's type inference does, the TryToOption / ToOptionBytes
   implementation used for the variant. *)
VariantType(variant) ==
    CASE variant = "Pad" -> "unit"
      [] variant = "SubnetMask" -> "ipv4"
      [] variant = "TimeOffset" -> "i32"
      [] variant = "Router" -> "ipv4vec"
      [] variant = "TimeServer" -> "ipv4vec"
      [] variant = "NameServer" -> "ipv4vec"
      [] variant = "DomainNameServer" -> "ipv4vec"
      [] variant = "LogServer" -> "ipv4vec"
      [] variant = "CookieServer" -> "ipv4vec"
      [] variant = "LPRServer" -> "ipv4vec"
      [] variant = "ImpressServer" -> "ipv4vec"
      [] variant = "ResourceLocationServer" -> "ipv4vec"
      [] variant = "HostName" -> "ascii"
      [] variant = "BootFileSize" -> "u16"
      [] variant = "MeritDumpFile" -> "ascii"
      [] variant = "DomainName" -> "ascii"
      [] variant = "SwapServer" -> "ipv4"
      [] variant = "RootPath" -> "ascii"
      [] variant = "ExtensionPath" -> "ascii"
      [] variant = "IpForwarding" -> "bool"
      [] variant = "NonLocalSourceRouting" -> "bool"
      [] variant = "PolicyFilter" -> "pairs"
      [] variant = "MaximumDatagramReassemblySize" -> "u16"
      [] variant = "DefaultIpTTL" -> "u8"
      [] variant = "PathMtuAgingTimeout" -> "u32"
      [] variant = "PathMtuPlateauTable" -> "u16vec"
      [] variant = "InterfaceMtu" -> "u16"
      [] variant = "AllSubnetsLocal" -> "bool"
      [] variant = "BroadcastAddress" -> "ipv4"
      [] variant = "MaskSupplier" -> "bool"
      [] variant = "PerformRouterDiscovery" -> "bool"
      [] variant = "RouterSolicitationAddress" -> "ipv4"
      [] variant = "StaticRoute" -> "pairs"
      [] variant = "TrailerEncapsulation" -> "bool"
      [] variant = "ArpCacheTimeout" -> "u32"
      [] variant = "EthernetEncapsulation" -> "bool"
      [] variant = "TcpDefaultTTL" -> "u8"
      [] variant = "TcpKeepAliveInterval" -> "u32"
      [] variant = "TcpKeepAliveGarbage" -> "bool"
      [] variant = "NetworkInformationServiceDomain" -> "ascii"
      [] variant = "NetworkInformationServers" -> "ipv4vec"
      [] variant = "NetworkTimeProtocolServers" -> "ipv4vec"
      [] variant = "VendorSpecific" -> "bytes"
      [] variant = "NetBiosOverTcpIpNameServer" -> "ipv4vec"
      [] variant = "NetBiosOverTcpIpDatagramDistributionServer" -> "ipv4vec"
      [] variant = "NetBiosOverTcpIpNodeType" -> "nodetype"
      [] variant = "NetBiosOverTcpIpScope" -> "ascii"
      [] variant = "XWindowSystemFontServer" -> "ipv4vec"
      [] variant = "XWindowSystemDisplayManager" -> "ipv4vec"
      [] variant = "RequestedIpAddress" -> "ipv4"
      [] variant = "IpAddressLeaseTime" -> "u32"
      [] variant = "OptionOverload" -> "overload"
      [] variant = "MessageType" -> "msgtype"
      [] variant = "ServerIdentifier" -> "ipv4"
      [] variant = "ParameterRequestList" -> "bytes"
      [] variant = "Message" -> "ascii"
      [] variant = "MaximumDhcpMessageSize" -> "u16"
      [] variant = "RenewalTimeValue" -> "u32"
      [] variant = "RebindingTimeValue" -> "u32"
      [] variant = "VendorClassIdentifier" -> "bytes"
      [] variant = "ClientIdentifier" -> "clientid"
      [] variant = "NetworkInformationServicePlusDomain" -> "ascii"
      [] variant = "NetworkInformationServicePlusServer" -> "ipv4vec"
      [] variant = "TftpServer" -> "ascii"
      [] variant = "BootFileName" -> "ascii"
      [] variant = "MobileIpHomeAgent" -> "ipv4vec"
      [] variant = "SmtpServer" -> "ipv4vec"
      [] variant = "Pop3Server" -> "ipv4vec"
      [] variant = "NntpServer" -> "ipv4vec"
      [] variant = "WwwServer" -> "ipv4vec"
      [] variant = "FingerServer" -> "ipv4vec"
      [] variant = "IrcServer" -> "ipv4vec"
      [] variant = "StreetTalkServer" -> "ipv4vec"
      [] variant = "StreetTalkDirectoryAssistanceServer" -> "ipv4vec"
      [] variant = "End" -> "unit"
      [] variant = "RelayAgentInformation" -> "relay"
      [] variant = "Unknown" -> "unknown"

(* DhcpOption::tag (option.rs 638-718): the slot a value is filed under. *)
tag(o) ==
    CASE o.kind = "Pad" -> PAD
      [] o.kind = "SubnetMask" -> SUBNET_MASK
      [] o.kind = "TimeOffset" -> TIME_OFFSET
      [] o.kind = "Router" -> ROUTER
      [] o.kind = "TimeServer" -> TIME_SERVER
      [] o.kind = "NameServer" -> NAME_SERVER
      [] o.kind = "DomainNameServer" -> DOMAIN_NAME_SERVER
      [] o.kind = "LogServer" -> LOG_SERVER
      [] o.kind = "CookieServer" -> COOKIE_SERVER
      [] o.kind = "LPRServer" -> LPR_SERVER
      [] o.kind = "ImpressServer" -> IMPRESS_SERVER
      [] o.kind = "ResourceLocationServer" -> RESOURCE_LOCATION_SERVER
      [] o.kind = "HostName" -> HOST_NAME
      [] o.kind = "BootFileSize" -> BOOT_FILE_SIZE
      [] o.kind = "MeritDumpFile" -> MERIT_DUMP_FILE
      [] o.kind = "DomainName" -> DOMAIN_NAME
      [] o.kind = "SwapServer" -> SWAP_SERVER
      [] o.kind = "RootPath" -> ROOT_PATH
      [] o.kind = "ExtensionPath" -> EXTENSION_PATH
      [] o.kind = "IpForwarding" -> IP_FORWARDING
      [] o.kind = "NonLocalSourceRouting" -> NON_LOCAL_SOURCE_ROUTING
      [] o.kind = "PolicyFilter" -> POLICY_FILTER
      [] o.kind = "MaximumDatagramReassemblySize" -> MAXIMUM_DATAGRAM_REASSEMBLY_SIZE
      [] o.kind = "DefaultIpTTL" -> DEFAULT_IP_TTL
      [] o.kind = "PathMtuAgingTimeout" -> PATH_MTU_AGING_TIMEOUT
      [] o.kind = "PathMtuPlateauTable" -> PATH_MTU_PLATEAU_TABLE
      [] o.kind = "InterfaceMtu" -> INTERFACE_MTU
      [] o.kind = "AllSubnetsLocal" -> ALL_SUBNETS_LOCAL
      [] o.kind = "BroadcastAddress" -> BROADCAST_ADDRESS
      [] o.kind = "MaskSupplier" -> MASK_SUPPLIER
      [] o.kind = "PerformRouterDiscovery" -> PERFORM_ROUTER_DISCOVERY
      [] o.kind = "RouterSolicitationAddress" -> ROUTER_SOLICITATION_ADDRESS
      [] o.kind = "StaticRoute" -> STATIC_ROUTE
      [] o.kind = "TrailerEncapsulation" -> TRAILER_ENCAPSULATION
      [] o.kind = "ArpCacheTimeout" -> ARP_CACHE_TIMEOUT
      [] o.kind = "EthernetEncapsulation" -> ETHERNET_ENCAPSULATION
      [] o.kind = "TcpDefaultTTL" -> TCP_DEFAULT_TTL
      [] o.kind = "TcpKeepAliveInterval" -> TCP_KEEPALIVE_INTERVAL
      [] o.kind = "TcpKeepAliveGarbage" -> TCP_KEEPALIVE_GARGABE
      [] o.kind = "NetworkInformationServiceDomain" -> NETWORK_INFORMATION_SERVICE_DOMAIN
      [] o.kind = "NetworkInformationServers" -> NETBIOS_OVER_TCP_IP_NAME_SERVER
      [] o.kind = "NetworkTimeProtocolServers" -> NETWORK_TIME_PROTOCOL_SERVERS
      [] o.kind = "VendorSpecific" -> VENDOR_SPECIFIC
      [] o.kind = "NetBiosOverTcpIpNameServer" -> NETBIOS_OVER_TCP_IP_NAME_SERVER
      [] o.kind = "NetBiosOverTcpIpDatagramDistributionServer" -> NETBIOS_OVER_TCP_IP_DATAGRAM_DISTRIBUTION_SERVER
      [] o.kind = "NetBiosOverTcpIpNodeType" -> NETBIOS_OVER_TCP_IP_NODE_TYPE
      [] o.kind = "NetBiosOverTcpIpScope" -> NETBIOS_OVER_TCP_IP_SCOPE
      [] o.kind = "XWindowSystemFontServer" -> X_WINDOW_SYSTEM_FONT_SERVER
      [] o.kind = "XWindowSystemDisplayManager" -> X_WINDOW_SYSTEM_DISPLAY_MANAGER
      [] o.kind = "RequestedIpAddress" -> REQUESTED_IP_ADDRESS
      [] o.kind = "IpAddressLeaseTime" -> IP_ADDRESS_LEASE_TIME
      [] o.kind = "OptionOverload" -> OPTION_OVERLOAD
      [] o.kind = "MessageType" -> MESSAGE_TYPE
      [] o.kind = "ServerIdentifier" -> SERVER_IDENTIFIER
      [] o.kind = "ParameterRequestList" -> PARAMETER_REQUEST_LIST
      [] o.kind = "Message" -> MESSAGE
      [] o.kind = "MaximumDhcpMessageSize" -> MAXIMUM_DHCP_MESSAGE_SIZE
      [] o.kind = "RenewalTimeValue" -> RENEWAL_TIME_VALUE
      [] o.kind = "RebindingTimeValue" -> REBINDING_TIME_VALUE
      [] o.kind = "VendorClassIdentifier" -> VENDOR_CLASS_IDENTIFIER
      [] o.kind = "ClientIdentifier" -> CLIENT_IDENTIFIER
      [] o.kind = "NetworkInformationServicePlusDomain" -> NETWORK_INFORMATION_SERVICE_PLUS_DOMAIN
      [] o.kind = "NetworkInformationServicePlusServer" -> NETWORK_INFORMATION_SERVICE_PLUS_SERVERS
      [] o.kind = "TftpServer" -> TFTP_SERVER_NAME
      [] o.kind = "BootFileName" -> BOOT_FILE_NAME
      [] o.kind = "MobileIpHomeAgent" -> MOBILE_IP_HOME_AGENT
      [] o.kind = "SmtpServer" -> SMTP_SERVER
      [] o.kind = "Pop3Server" -> POP3_SERVER
      [] o.kind = "NntpServer" -> NNTP_SERVER
      [] o.kind = "WwwServer" -> WWW_SERVER
      [] o.kind = "FingerServer" -> FINGER_SERVER
      [] o.kind = "IrcServer" -> IRC_SERVER
      [] o.kind = "StreetTalkServer" -> STREET_TALK_SERVER
      [] o.kind = "StreetTalkDirectoryAssistanceServer" -> STREET_TALK_DIRECTORY_ASSISTANCE
      [] o.kind = "End" -> END
      [] o.kind = "RelayAgentInformation" -> RELAY_AGENT_INFORMATION
      [] o.kind = "Unknown" -> o.val.tag

(* The arms of DhcpOption::from_bytes (option.rs 722-824) that decode the payload
   with try_from_option (min 0) or try_from_option_min_bytes(tag, min). *)
from_bytes_arm(t) ==
    CASE t = SUBNET_MASK -> [variant |-> "SubnetMask", min |-> 0]
      [] t = TIME_OFFSET -> [variant |-> "TimeOffset", min |-> 0]
      [] t = ROUTER -> [variant |-> "Router", min |-> 4]
      [] t = TIME_SERVER -> [variant |-> "TimeServer", min |-> 4]
      [] t = NAME_SERVER -> [variant |-> "NameServer", min |-> 4]
      [] t = DOMAIN_NAME_SERVER -> [variant |-> "DomainNameServer", min |-> 4]
      [] t = LOG_SERVER -> [variant |-> "LogServer", min |-> 4]
      [] t = COOKIE_SERVER -> [variant |-> "CookieServer", min |-> 4]
      [] t = LPR_SERVER -> [variant |-> "LPRServer", min |-> 4]
      [] t = IMPRESS_SERVER -> [variant |-> "ImpressServer", min |-> 4]
      [] t = RESOURCE_LOCATION_SERVER -> [variant |-> "ResourceLocationServer", min |-> 4]
      [] t = HOST_NAME -> [variant |-> "HostName", min |-> 1]
      [] t = BOOT_FILE_SIZE -> [variant |-> "BootFileSize", min |-> 0]
      [] t = MERIT_DUMP_FILE -> [variant |-> "MeritDumpFile", min |-> 1]
      [] t = DOMAIN_NAME -> [variant |-> "DomainName", min |-> 1]
      [] t = SWAP_SERVER -> [variant |-> "SwapServer", min |-> 0]
      [] t = ROOT_PATH -> [variant |-> "RootPath", min |-> 1]
      [] t = EXTENSION_PATH -> [variant |-> "ExtensionPath", min |-> 1]
      [] t = IP_FORWARDING -> [variant |-> "IpForwarding", min |-> 0]
      [] t = NON_LOCAL_SOURCE_ROUTING -> [variant |-> "NonLocalSourceRouting", min |-> 0]
      [] t = POLICY_FILTER -> [variant |-> "PolicyFilter", min |-> 8]
      [] t = DEFAULT_IP_TTL -> [variant |-> "DefaultIpTTL", min |-> 1]
      [] t = PATH_MTU_AGING_TIMEOUT -> [variant |-> "PathMtuAgingTimeout", min |-> 0]
      [] t = PATH_MTU_PLATEAU_TABLE -> [variant |-> "PathMtuPlateauTable", min |-> 2]
      [] t = INTERFACE_MTU -> [variant |-> "InterfaceMtu", min |-> 0]
      [] t = ALL_SUBNETS_LOCAL -> [variant |-> "AllSubnetsLocal", min |-> 0]
      [] t = BROADCAST_ADDRESS -> [variant |-> "BroadcastAddress", min |-> 0]
      [] t = PERFORM_MASK_DISCOVERY -> [variant |-> "PerformRouterDiscovery", min |-> 0]
      [] t = MASK_SUPPLIER -> [variant |-> "MaskSupplier", min |-> 0]
      [] t = PERFORM_ROUTER_DISCOVERY -> [variant |-> "PerformRouterDiscovery", min |-> 0]
      [] t = ROUTER_SOLICITATION_ADDRESS -> [variant |-> "RouterSolicitationAddress", min |-> 4]
      [] t = STATIC_ROUTE -> [variant |-> "StaticRoute", min |-> 8]
      [] t = TRAILER_ENCAPSULATION -> [variant |-> "TrailerEncapsulation", min |-> 0]
      [] t = ARP_CACHE_TIMEOUT -> [variant |-> "ArpCacheTimeout", min |-> 0]
      [] t = ETHERNET_ENCAPSULATION -> [variant |-> "EthernetEncapsulation", min |-> 0]
      [] t = TCP_KEEPALIVE_INTERVAL -> [variant |-> "TcpKeepAliveInterval", min |-> 0]
      [] t = TCP_KEEPALIVE_GARGABE -> [variant |-> "TcpKeepAliveGarbage", min |-> 0]
      [] t = NETWORK_INFORMATION_SERVICE_DOMAIN -> [variant |-> "NetworkInformationServiceDomain", min |-> 1]
      [] t = NETWORK_INFORMATION_SERVERS -> [variant |-> "NetworkInformationServers", min |-> 4]
      [] t = NETWORK_TIME_PROTOCOL_SERVERS -> [variant |-> "NetworkTimeProtocolServers", min |-> 4]
      [] t = VENDOR_SPECIFIC -> [variant |-> "VendorSpecific", min |-> 1]
      [] t = NETBIOS_OVER_TCP_IP_NAME_SERVER -> [variant |-> "NetBiosOverTcpIpNameServer", min |-> 4]
      [] t = NETBIOS_OVER_TCP_IP_DATAGRAM_DISTRIBUTION_SERVER -> [variant |-> "NetBiosOverTcpIpDatagramDistributionServer", min |-> 4]
      [] t = NETBIOS_OVER_TCP_IP_NODE_TYPE -> [variant |-> "NetBiosOverTcpIpNodeType", min |-> 0]
      [] t = NETBIOS_OVER_TCP_IP_SCOPE -> [variant |-> "NetBiosOverTcpIpScope", min |-> 1]
      [] t = X_WINDOW_SYSTEM_FONT_SERVER -> [variant |-> "XWindowSystemFontServer", min |-> 4]
      [] t = X_WINDOW_SYSTEM_DISPLAY_MANAGER -> [variant |-> "XWindowSystemDisplayManager", min |-> 4]
      [] t = REQUESTED_IP_ADDRESS -> [variant |-> "RequestedIpAddress", min |-> 4]
      [] t = IP_ADDRESS_LEASE_TIME -> [variant |-> "IpAddressLeaseTime", min |-> 4]
      [] t = OPTION_OVERLOAD -> [variant |-> "OptionOverload", min |-> 0]
      [] t = MESSAGE_TYPE -> [variant |-> "MessageType", min |-> 0]
      [] t = SERVER_IDENTIFIER -> [variant |-> "ServerIdentifier", min |-> 0]
      [] t = PARAMETER_REQUEST_LIST -> [variant |-> "ParameterRequestList", min |-> 1]
      [] t = MESSAGE -> [variant |-> "Message", min |-> 1]
      [] t = RENEWAL_TIME_VALUE -> [variant |-> "RenewalTimeValue", min |-> 0]
      [] t = REBINDING_TIME_VALUE -> [variant |-> "RebindingTimeValue", min |-> 0]
      [] t = VENDOR_CLASS_IDENTIFIER -> [variant |-> "VendorClassIdentifier", min |-> 1]
      [] t = NETWORK_INFORMATION_SERVICE_PLUS_DOMAIN -> [variant |-> "NetworkInformationServicePlusDomain", min |-> 4]
      [] t = NETWORK_INFORMATION_SERVICE_PLUS_SERVERS -> [variant |-> "NetworkInformationServicePlusServer", min |-> 4]
      [] t = TFTP_SERVER_NAME -> [variant |-> "TftpServer", min |-> 0]
      [] t = BOOT_FILE_NAME -> [variant |-> "BootFileName", min |-> 1]
      [] t = MOBILE_IP_HOME_AGENT -> [variant |-> "MobileIpHomeAgent", min |-> 0]
      [] t = SMTP_SERVER -> [variant |-> "SmtpServer", min |-> 4]
      [] t = POP3_SERVER -> [variant |-> "Pop3Server", min |-> 4]
      [] t = NNTP_SERVER -> [variant |-> "NntpServer", min |-> 4]
      [] t = WWW_SERVER -> [variant |-> "WwwServer", min |-> 4]
      [] t = FINGER_SERVER -> [variant |-> "FingerServer", min |-> 4]
      [] t = IRC_SERVER -> [variant |-> "IrcServer", min |-> 4]
      [] t = STREET_TALK_SERVER -> [variant |-> "StreetTalkServer", min |-> 4]
      [] t = STREET_TALK_DIRECTORY_ASSISTANCE -> [variant |-> "StreetTalkDirectoryAssistanceServer", min |-> 4]
      [] t = RELAY_AGENT_INFORMATION -> [variant |-> "RelayAgentInformation", min |-> 0]

(* The tag each arm of DhcpOption::to_bytes passes to to_option_bytes
   (option.rs 829-911). *)
to_bytes_tag(variant) ==
    CASE variant = "SubnetMask" -> SUBNET_MASK
      [] variant = "TimeOffset" -> TIME_OFFSET
      [] variant = "Router" -> ROUTER
      [] variant = "TimeServer" -> TIME_SERVER
      [] variant = "NameServer" -> NAME_SERVER
      [] variant = "DomainNameServer" -> DOMAIN_NAME_SERVER
      [] variant = "LogServer" -> LOG_SERVER
      [] variant = "CookieServer" -> COOKIE_SERVER
      [] variant = "LPRServer" -> LPR_SERVER
      [] variant = "ImpressServer" -> IMPRESS_SERVER
      [] variant = "ResourceLocationServer" -> RESOURCE_LOCATION_SERVER
      [] variant = "HostName" -> HOST_NAME
      [] variant = "BootFileSize" -> BOOT_FILE_SIZE
      [] variant = "MeritDumpFile" -> MERIT_DUMP_FILE
      [] variant = "DomainName" -> DOMAIN_NAME
      [] variant = "SwapServer" -> SWAP_SERVER
      [] variant = "RootPath" -> ROOT_PATH
      [] variant = "ExtensionPath" -> EXTENSION_PATH
      [] variant = "IpForwarding" -> IP_FORWARDING
      [] variant = "NonLocalSourceRouting" -> NON_LOCAL_SOURCE_ROUTING
      [] variant = "PolicyFilter" -> POLICY_FILTER
      [] variant = "MaximumDatagramReassemblySize" -> MAXIMUM_DATAGRAM_REASSEMBLY_SIZE
      [] variant = "DefaultIpTTL" -> DEFAULT_IP_TTL
      [] variant = "PathMtuAgingTimeout" -> PATH_MTU_AGING_TIMEOUT
      [] variant = "PathMtuPlateauTable" -> PATH_MTU_PLATEAU_TABLE
      [] variant = "InterfaceMtu" -> INTERFACE_MTU
      [] variant = "AllSubnetsLocal" -> ALL_SUBNETS_LOCAL
      [] variant = "BroadcastAddress" -> BROADCAST_ADDRESS
      [] variant = "MaskSupplier" -> MASK_SUPPLIER
      [] variant = "PerformRouterDiscovery" -> PERFORM_ROUTER_DISCOVERY
      [] variant = "RouterSolicitationAddress" -> ROUTER_SOLICITATION_ADDRESS
      [] variant = "StaticRoute" -> STATIC_ROUTE
      [] variant = "TrailerEncapsulation" -> TRAILER_ENCAPSULATION
      [] variant = "ArpCacheTimeout" -> ARP_CACHE_TIMEOUT
      [] variant = "EthernetEncapsulation" -> ETHERNET_ENCAPSULATION
      [] variant = "TcpDefaultTTL" -> TCP_DEFAULT_TTL
      [] variant = "TcpKeepAliveInterval" -> TCP_KEEPALIVE_INTERVAL
      [] variant = "TcpKeepAliveGarbage" -> TCP_KEEPALIVE_GARGABE
      [] variant = "NetworkInformationServiceDomain" -> NETWORK_INFORMATION_SERVICE_DOMAIN
      [] variant = "NetworkInformationServers" -> NETWORK_INFORMATION_SERVERS
      [] variant = "NetworkTimeProtocolServers" -> NETWORK_TIME_PROTOCOL_SERVERS
      [] variant = "VendorSpecific" -> VENDOR_SPECIFIC
      [] variant = "NetBiosOverTcpIpNameServer" -> NETBIOS_OVER_TCP_IP_NAME_SERVER
      [] variant = "NetBiosOverTcpIpDatagramDistributionServer" -> NETBIOS_OVER_TCP_IP_DATAGRAM_DISTRIBUTION_SERVER
      [] variant = "NetBiosOverTcpIpNodeType" -> NETBIOS_OVER_TCP_IP_NODE_TYPE
      [] variant = "NetBiosOverTcpIpScope" -> NETBIOS_OVER_TCP_IP_SCOPE
      [] variant = "XWindowSystemFontServer" -> X_WINDOW_SYSTEM_FONT_SERVER
      [] variant = "XWindowSystemDisplayManager" -> X_WINDOW_SYSTEM_DISPLAY_MANAGER
      [] variant = "RequestedIpAddress" -> REQUESTED_IP_ADDRESS
      [] variant = "IpAddressLeaseTime" -> IP_ADDRESS_LEASE_TIME
      [] variant = "OptionOverload" -> OPTION_OVERLOAD
      [] variant = "MessageType" -> MESSAGE_TYPE
      [] variant = "ServerIdentifier" -> SERVER_IDENTIFIER
      [] variant = "ParameterRequestList" -> PARAMETER_REQUEST_LIST
      [] variant = "Message" -> MESSAGE
      [] variant = "MaximumDhcpMessageSize" -> MAXIMUM_DHCP_MESSAGE_SIZE
      [] variant = "RenewalTimeValue" -> RENEWAL_TIME_VALUE
      [] variant = "RebindingTimeValue" -> REBINDING_TIME_VALUE
      [] variant = "VendorClassIdentifier" -> VENDOR_CLASS_IDENTIFIER
      [] variant = "NetworkInformationServicePlusDomain" -> NETWORK_INFORMATION_SERVICE_PLUS_DOMAIN
      [] variant = "NetworkInformationServicePlusServer" -> NETWORK_INFORMATION_SERVICE_PLUS_SERVERS
      [] variant = "TftpServer" -> TFTP_SERVER_NAME
      [] variant = "BootFileName" -> BOOT_FILE_NAME
      [] variant = "MobileIpHomeAgent" -> MOBILE_IP_HOME_AGENT
      [] variant = "SmtpServer" -> SMTP_SERVER
      [] variant = "Pop3Server" -> POP3_SERVER
      [] variant = "NntpServer" -> NNTP_SERVER
      [] variant = "WwwServer" -> WWW_SERVER
      [] variant = "FingerServer" -> FINGER_SERVER
      [] variant = "IrcServer" -> IRC_SERVER
      [] variant = "StreetTalkServer" -> STREET_TALK_SERVER
      [] variant = "StreetTalkDirectoryAssistanceServer" -> STREET_TALK_DIRECTORY_ASSISTANCE
      [] variant = "RelayAgentInformation" -> RELAY_AGENT_INFORMATION
(***************************************************************************)
(* Results and errors (src/src/error.rs)                                   *)
(***************************************************************************)
Ok(v) == [res |-> "Ok", val |-> v]

Err(e) == [res |-> "Err", val |-> e]

Panic == [res |-> "Panic", val |-> <<>>]

OptionParseError(t) == [err |-> "OptionParseError", tag |-> t]

OptionInvalidValueError(t) == [err |-> "OptionInvalidValueError", tag |-> t]

InvalidPacketLength(n) == [err |-> "InvalidPacketLength", tag |-> n]

FieldError(name) == [err |-> name, tag |-> 0]

IsOk(r) == r.res = "Ok"

(***************************************************************************)
(* Byte-string helpers                                                     *)
(***************************************************************************)
\* Rust's `n as u8`
as_u8(n) == n % 256

\* The slice bytes[from..] (from is a 0-based offset, from <= Len(bytes)).
SliceFrom(bytes, from) == SubSeq(bytes, from + 1, Len(bytes))

\* The slice bytes[from..to] (0-based, to exclusive, to <= Len(bytes)).
Slice(bytes, from, to) == SubSeq(bytes, from + 1, to)

\* chunks_exact(n): the consecutive n-byte pieces of bytes.
chunks_exact(bytes, n) ==
    [i \in 1..(Len(bytes) \div n) |-> SubSeq(bytes, (i - 1) * n + 1, i * n)]

RECURSIVE Flatten(_)
Flatten(seqs) ==
    IF seqs = <<>> THEN <<>> ELSE Head(seqs) \o Flatten(Tail(seqs))

\* u16::to_be_bytes / u16::from_be_bytes
u16_to_be_bytes(n) == <<n \div 256, n % 256>>

u16_from_be_bytes(b) == b[1] * 256 + b[2]

\* u32::to_be_bytes / u32::from_be_bytes.  The model's integers are 32-bit
\* signed, so u32 values are kept below 2^31 (first byte below 128).
u32_to_be_bytes(n) ==
    <<n \div 16777216, (n \div 65536) % 256, (n \div 256) % 256, n % 256>>

u32_from_be_bytes(b) == b[1] * 16777216 + b[2] * 65536 + b[3] * 256 + b[4]

\* i32::to_be_bytes / i32::from_be_bytes: two's complement, big-endian.
i32_to_be_bytes(n) ==
    IF n >= 0 THEN u32_to_be_bytes(n)
    ELSE LET c == u32_to_be_bytes(-(n + 1))
         IN <<255 - c[1], 255 - c[2], 255 - c[3], 255 - c[4]>>

i32_from_be_bytes(b) ==
    IF b[1] < 128 THEN u32_from_be_bytes(b)
    ELSE -u32_from_be_bytes(<<255 - b[1], 255 - b[2], 255 - b[3], 255 - b[4]>>) - 1

(***************************************************************************)
(* convert.rs: TryToOption<T> for &[u8], one operator per implementation.  *)
(* A range index such as self[0..4] panics on a shorter slice; the         *)
(* try_into() that follows it cannot fail, so its map_err never runs.      *)
(***************************************************************************)
try_from_option_Ipv4Addr(data, t) ==
    IF Len(data) < 4 THEN Panic ELSE Ok(Slice(data, 0, 4))

try_from_option_VecIpv4Addr(data, t) ==
    IF Len(data) % 4 = 0 THEN Ok(chunks_exact(data, 4))
    ELSE Err(OptionParseError(t))

try_from_option_u8(data, t) ==
    IF Len(data) < 1 THEN Panic ELSE Ok(data[1])

try_from_option_u16(data, t) ==
    IF Len(data) < 2 THEN Panic ELSE Ok(u16_from_be_bytes(Slice(data, 0, 2)))

try_from_option_u32(data, t) ==
    IF Len(data) < 4 THEN Panic ELSE Ok(u32_from_be_bytes(Slice(data, 0, 4)))

try_from_option_i32(data, t) ==
    IF Len(data) < 4 THEN Panic ELSE Ok(i32_from_be_bytes(Slice(data, 0, 4)))

try_from_option_AsciiString(data, t) ==
    IF \A i \in 1..Len(data) : data[i] < 128 THEN Ok(data)
    ELSE Err(OptionParseError(t))

try_from_option_bool(data, t) ==
    IF Len(data) < 1 THEN Err(OptionParseError(t))
    ELSE IF data[1] = 0 THEN Ok(FALSE)
    ELSE IF data[1] = 1 THEN Ok(TRUE)
    ELSE Err(OptionParseError(t))

\* The pair list decoder as it would be if it took any whole number of addresses.
try_from_option_VecIpv4Pair_of_fours(data, t) ==
    IF Len(data) % 4 = 0
    THEN Ok([i \in 1..(Len(data) \div 8) |->
                LET b == chunks_exact(data, 8)[i]
                IN <<Slice(b, 0, 4), Slice(b, 4, 8)>>])
    ELSE Err(OptionParseError(t))

try_from_option_VecIpv4Pair(data, t) ==
    IF Len(data) % 8 = 0
    THEN Ok([i \in 1..(Len(data) \div 8) |->
                LET b == chunks_exact(data, 8)[i]
                IN <<Slice(b, 0, 4), Slice(b, 4, 8)>>])
    ELSE Err(OptionParseError(t))

try_from_option_VecU8(data, t) == Ok(data)

try_from_option_VecU16(data, t) ==
    IF Len(data) % 2 = 0
    THEN Ok([i \in 1..(Len(data) \div 2) |->
                u16_from_be_bytes(chunks_exact(data, 2)[i])])
    ELSE Err(OptionParseError(t))

NODE_TYPE_B == 1
NODE_TYPE_P == 2
NODE_TYPE_M == 4
NODE_TYPE_H == 8

try_from_option_NetBiosNodeType(data, t) ==
    IF Len(data) < 1 THEN Err(OptionParseError(t))
    ELSE CASE data[1] = NODE_TYPE_B -> Ok("B")
           [] data[1] = NODE_TYPE_P -> Ok("P")
           [] data[1] = NODE_TYPE_M -> Ok("M")
           [] data[1] = NODE_TYPE_H -> Ok("H")
           [] OTHER -> Err(OptionParseError(t))

OVERLOAD_FILE == 1
OVERLOAD_SNAME == 2
OVERLOAD_BOTH == 3

try_from_option_Overload(data, t) ==
    IF Len(data) < 1 THEN Err(OptionParseError(t))
    ELSE CASE data[1] = OVERLOAD_FILE -> Ok("File")
           [] data[1] = OVERLOAD_SNAME -> Ok("Sname")
           [] data[1] = OVERLOAD_BOTH -> Ok("Both")
           [] OTHER -> Err(OptionParseError(t))

MESSAGE_TYPE_DISCOVER == 1
MESSAGE_TYPE_OFFER == 2
MESSAGE_TYPE_REQUEST == 3
MESSAGE_TYPE_DECLINE == 4
MESSAGE_TYPE_PACK == 5
MESSAGE_TYPE_NAK == 6
MESSAGE_TYPE_RELEASE == 7
MESSAGE_TYPE_INFORM == 8

try_from_option_MessageType(data, t) ==
    IF Len(data) < 1 THEN Err(OptionParseError(t))
    ELSE CASE data[1] = MESSAGE_TYPE_DISCOVER -> Ok("Discover")
           [] data[1] = MESSAGE_TYPE_OFFER -> Ok("Offer")
           [] data[1] = MESSAGE_TYPE_REQUEST -> Ok("Request")
           [] data[1] = MESSAGE_TYPE_DECLINE -> Ok("Decline")
           [] data[1] = MESSAGE_TYPE_PACK -> Ok("Ack")
           [] data[1] = MESSAGE_TYPE_NAK -> Ok("Nak")
           [] data[1] = MESSAGE_TYPE_RELEASE -> Ok("Release")
           [] data[1] = MESSAGE_TYPE_INFORM -> Ok("Inform")
           [] OTHER -> Err(OptionParseError(t))

RELAY_AGENT_CIRCUIT == 1
RELAY_AGENT_REMOTE == 2

\* The loop of TryToOption<Vec<RelayAgentInformationSubOption>>: bytes is what is
\* left of the payload, result what has been pushed so far.  bytes[2..length]
\* panics when length exceeds the bytes left.
RECURSIVE relay_loop(_, _, _)
relay_loop(bytes, t, result) ==
    IF Len(bytes) < 1 THEN Err(OptionParseError(t))
    ELSE IF Len(bytes) < 2 THEN Err(OptionParseError(t))
    ELSE LET sub_tag == bytes[1]
             length == bytes[2] + 2
         IN IF length > Len(bytes) THEN Panic
            ELSE LET data == Slice(bytes, 2, length)
                     sub == CASE sub_tag = RELAY_AGENT_CIRCUIT ->
                                     [sub |-> "AgentCircuit", data |-> data]
                              [] sub_tag = RELAY_AGENT_REMOTE ->
                                     [sub |-> "AgentRemote", data |-> data]
                              [] OTHER -> [sub |-> "Unknown", data |-> data]
                     rest == SliceFrom(bytes, length)
                 IN IF rest = <<>> THEN Ok(Append(result, sub))
                    ELSE relay_loop(rest, t, Append(result, sub))

try_from_option_VecRelay(data, t) == relay_loop(data, t, <<>>)

\* try_from_option for the payload type `type` (see VariantType).
try_from_option(type, data, t) ==
    CASE type = "ipv4" -> try_from_option_Ipv4Addr(data, t)
      [] type = "ipv4vec" -> try_from_option_VecIpv4Addr(data, t)
      [] type = "u8" -> try_from_option_u8(data, t)
      [] type = "u16" -> try_from_option_u16(data, t)
      [] type = "u32" -> try_from_option_u32(data, t)
      [] type = "i32" -> try_from_option_i32(data, t)
      [] type = "ascii" -> try_from_option_AsciiString(data, t)
      [] type = "bool" -> try_from_option_bool(data, t)
      [] type = "pairs" -> try_from_option_VecIpv4Pair(data, t)
      [] type = "bytes" -> try_from_option_VecU8(data, t)
      [] type = "u16vec" -> try_from_option_VecU16(data, t)
      [] type = "nodetype" -> try_from_option_NetBiosNodeType(data, t)
      [] type = "overload" -> try_from_option_Overload(data, t)
      [] type = "msgtype" -> try_from_option_MessageType(data, t)
      [] type = "relay" -> try_from_option_VecRelay(data, t)

\* TryIntoOptionMinBytes::try_from_option_min_bytes
try_from_option_min_bytes(type, data, t, min_bytes) ==
    IF Len(data) < min_bytes THEN Err(OptionParseError(t))
    ELSE try_from_option(type, data, t)

(***************************************************************************)
(* convert.rs: ToOptionBytes, one operator per implementation.             *)
(***************************************************************************)
to_option_bytes_Ipv4Addr(v, t) == <<t, as_u8(Len(v))>> \o v

to_option_bytes_VecIpv4Addr(v, t) ==
    LET bytes == <<t>> \o Flatten(v)
    IN <<t, as_u8(Len(bytes) - 1)>> \o Tail(bytes)

to_option_bytes_u16(v, t) == <<t, 2>> \o u16_to_be_bytes(v)

to_option_bytes_u32(v, t) == <<t, 4>> \o u32_to_be_bytes(v)

to_option_bytes_i32(v, t) == <<t, 4>> \o i32_to_be_bytes(v)

to_option_bytes_AsciiString(v, t) == <<t, as_u8(Len(v))>> \o v

to_option_bytes_bool(v, t) == <<t, 1, IF v THEN 1 ELSE 0>>

to_option_bytes_VecIpv4Pair(v, t) ==
    LET data == Flatten([i \in 1..Len(v) |-> v[i][1] \o v[i][2]])
    IN <<t, as_u8(Len(data))>> \o data

to_option_bytes_u8(v, t) == <<t, 1, v>>

to_option_bytes_VecU16(v, t) ==
    LET data == Flatten([i \in 1..Len(v) |-> u16_to_be_bytes(v[i])])
    IN <<t, as_u8(Len(data))>> \o data

to_option_bytes_VecU8(v, t) == <<t, as_u8(Len(v))>> \o v

to_option_bytes_NetBiosNodeType(v, t) ==
    <<t, 1, CASE v = "B" -> NODE_TYPE_B [] v = "P" -> NODE_TYPE_P
              [] v = "M" -> NODE_TYPE_M [] v = "H" -> NODE_TYPE_H>>

to_option_bytes_Overload(v, t) ==
    <<t, 1, CASE v = "File" -> OVERLOAD_FILE [] v = "Sname" -> OVERLOAD_SNAME
              [] v = "Both" -> OVERLOAD_BOTH>>

to_option_bytes_MessageType(v, t) ==
    <<t, 1, CASE v = "Discover" -> MESSAGE_TYPE_DISCOVER
              [] v = "Offer" -> MESSAGE_TYPE_OFFER
              [] v = "Request" -> MESSAGE_TYPE_REQUEST
              [] v = "Decline" -> MESSAGE_TYPE_DECLINE
              [] v = "Ack" -> MESSAGE_TYPE_PACK
              [] v = "Nak" -> MESSAGE_TYPE_NAK
              [] v = "Release" -> MESSAGE_TYPE_RELEASE
              [] v = "Inform" -> MESSAGE_TYPE_INFORM>>

to_option_bytes_VecRelay(v, t) ==
    LET one(r) ==
            LET sub_tag == CASE r.sub = "AgentRemote" -> RELAY_AGENT_REMOTE
                             [] r.sub = "AgentCircuit" -> RELAY_AGENT_CIRCUIT
                             [] r.sub = "Unknown" -> 0
            IN <<sub_tag, as_u8(Len(r.data))>> \o r.data
        sub_options == Flatten([i \in 1..Len(v) |-> one(v[i])])
    IN <<t, as_u8(Len(sub_options))>> \o sub_options

\* to_option_bytes for the payload type `type` (see VariantType).
to_option_bytes(type, v, t) ==
    CASE type = "ipv4" -> to_option_bytes_Ipv4Addr(v, t)
      [] type = "ipv4vec" -> to_option_bytes_VecIpv4Addr(v, t)
      [] type = "u8" -> to_option_bytes_u8(v, t)
      [] type = "u16" -> to_option_bytes_u16(v, t)
      [] type = "u32" -> to_option_bytes_u32(v, t)
      [] type = "i32" -> to_option_bytes_i32(v, t)
      [] type = "ascii" -> to_option_bytes_AsciiString(v, t)
      [] type = "bool" -> to_option_bytes_bool(v, t)
      [] type = "pairs" -> to_option_bytes_VecIpv4Pair(v, t)
      [] type = "bytes" -> to_option_bytes_VecU8(v, t)
      [] type = "u16vec" -> to_option_bytes_VecU16(v, t)
      [] type = "nodetype" -> to_option_bytes_NetBiosNodeType(v, t)
      [] type = "overload" -> to_option_bytes_Overload(v, t)
      [] type = "msgtype" -> to_option_bytes_MessageType(v, t)
      [] type = "relay" -> to_option_bytes_VecRelay(v, t)

(***************************************************************************)
(* option.rs: DhcpOption                                                   *)
(***************************************************************************)
Option(kind, val) == [kind |-> kind, val |-> val]

\* The tags whose from_bytes arm only wraps the decoded payload in a variant.
PlainTags ==
    {SUBNET_MASK, TIME_OFFSET, ROUTER, TIME_SERVER, NAME_SERVER,
     DOMAIN_NAME_SERVER, LOG_SERVER, COOKIE_SERVER, LPR_SERVER,
     IMPRESS_SERVER, RESOURCE_LOCATION_SERVER, HOST_NAME, BOOT_FILE_SIZE,
     MERIT_DUMP_FILE, DOMAIN_NAME, SWAP_SERVER, ROOT_PATH, EXTENSION_PATH,
     IP_FORWARDING, NON_LOCAL_SOURCE_ROUTING, POLICY_FILTER, DEFAULT_IP_TTL,
     PATH_MTU_AGING_TIMEOUT, PATH_MTU_PLATEAU_TABLE, INTERFACE_MTU,
     ALL_SUBNETS_LOCAL, BROADCAST_ADDRESS, PERFORM_MASK_DISCOVERY,
     MASK_SUPPLIER, PERFORM_ROUTER_DISCOVERY, ROUTER_SOLICITATION_ADDRESS,
     STATIC_ROUTE, TRAILER_ENCAPSULATION, ARP_CACHE_TIMEOUT,
     ETHERNET_ENCAPSULATION, TCP_KEEPALIVE_INTERVAL, TCP_KEEPALIVE_GARGABE,
     NETWORK_INFORMATION_SERVICE_DOMAIN, NETWORK_INFORMATION_SERVERS,
     NETWORK_TIME_PROTOCOL_SERVERS, VENDOR_SPECIFIC,
     NETBIOS_OVER_TCP_IP_NAME_SERVER,
     NETBIOS_OVER_TCP_IP_DATAGRAM_DISTRIBUTION_SERVER,
     NETBIOS_OVER_TCP_IP_NODE_TYPE, NETBIOS_OVER_TCP_IP_SCOPE,
     X_WINDOW_SYSTEM_FONT_SERVER, X_WINDOW_SYSTEM_DISPLAY_MANAGER,
     REQUESTED_IP_ADDRESS, IP_ADDRESS_LEASE_TIME, OPTION_OVERLOAD,
     MESSAGE_TYPE, SERVER_IDENTIFIER, PARAMETER_REQUEST_LIST, MESSAGE,
     RENEWAL_TIME_VALUE, REBINDING_TIME_VALUE, VENDOR_CLASS_IDENTIFIER,
     NETWORK_INFORMATION_SERVICE_PLUS_DOMAIN,
     NETWORK_INFORMATION_SERVICE_PLUS_SERVERS, TFTP_SERVER_NAME,
     BOOT_FILE_NAME, MOBILE_IP_HOME_AGENT, SMTP_SERVER, POP3_SERVER,
     NNTP_SERVER, WWW_SERVER, FINGER_SERVER, IRC_SERVER, STREET_TALK_SERVER,
     STREET_TALK_DIRECTORY_ASSISTANCE, RELAY_AGENT_INFORMATION}

\* DhcpOption::from_bytes as it would be if 576 itself were rejected.
DhcpOption_from_bytes_rejecting_576(t, length, data) ==
    CASE t = PAD -> Ok(Option("Pad", <<>>))
      [] t = END -> Ok(Option("End", <<>>))
      [] t \in {MAXIMUM_DATAGRAM_REASSEMBLY_SIZE, MAXIMUM_DHCP_MESSAGE_SIZE} ->
            LET r == try_from_option("u16", data, t)
            IN IF ~IsOk(r) THEN r
               ELSE IF r.val <= 576 THEN Err(OptionInvalidValueError(t))
               ELSE Ok(Option(IF t = MAXIMUM_DATAGRAM_REASSEMBLY_SIZE
                              THEN "MaximumDatagramReassemblySize"
                              ELSE "MaximumDhcpMessageSize", r.val))
      [] t = TCP_DEFAULT_TTL ->
            LET r == try_from_option("u8", data, t)
            IN IF ~IsOk(r) THEN r
               ELSE IF r.val < 1 THEN Err(OptionInvalidValueError(t))
               ELSE Ok(Option("TcpDefaultTTL", r.val))
      [] t = CLIENT_IDENTIFIER ->
            IF Len(data) < 1 THEN Panic
            ELSE Ok(Option("ClientIdentifier",
                           [typ |-> data[1], data |-> SliceFrom(data, 1)]))
      [] t \in PlainTags ->
            LET arm == from_bytes_arm(t)
                r == try_from_option_min_bytes(VariantType(arm.variant), data,
                                               t, arm.min)
            IN IF IsOk(r) THEN Ok(Option(arm.variant, r.val)) ELSE r
      [] OTHER -> Ok(Option("Unknown", [tag |-> t, data |-> data]))

\* DhcpOption::from_bytes(tag, _length, data); _length is not read.
DhcpOption_from_bytes(t, length, data) ==
    CASE t = PAD -> Ok(Option("Pad", <<>>))
      [] t = END -> Ok(Option("End", <<>>))
      [] t \in {MAXIMUM_DATAGRAM_REASSEMBLY_SIZE, MAXIMUM_DHCP_MESSAGE_SIZE} ->
            LET r == try_from_option("u16", data, t)
            IN IF ~IsOk(r) THEN r
               ELSE IF r.val < 576 THEN Err(OptionInvalidValueError(t))
               ELSE Ok(Option(IF t = MAXIMUM_DATAGRAM_REASSEMBLY_SIZE
                              THEN "MaximumDatagramReassemblySize"
                              ELSE "MaximumDhcpMessageSize", r.val))
      [] t = TCP_DEFAULT_TTL ->
            LET r == try_from_option("u8", data, t)
            IN IF ~IsOk(r) THEN r
               ELSE IF r.val < 1 THEN Err(OptionInvalidValueError(t))
               ELSE Ok(Option("TcpDefaultTTL", r.val))
      [] t = CLIENT_IDENTIFIER ->
            IF Len(data) < 1 THEN Panic
            ELSE Ok(Option("ClientIdentifier",
                           [typ |-> data[1], data |-> SliceFrom(data, 1)]))
      [] t \in PlainTags ->
            LET arm == from_bytes_arm(t)
                r == try_from_option_min_bytes(VariantType(arm.variant), data,
                                               t, arm.min)
            IN IF IsOk(r) THEN Ok(Option(arm.variant, r.val)) ELSE r
      [] OTHER -> Ok(Option("Unknown", [tag |-> t, data |-> data]))

\* DhcpOption::to_bytes
DhcpOption_to_bytes(o) ==
    CASE o.kind = "Pad" -> <<PAD>>
      [] o.kind = "End" -> <<END>>
      [] o.kind = "ClientIdentifier" ->
            <<CLIENT_IDENTIFIER, o.val.typ, as_u8(Len(o.val.data))>> \o o.val.data
      [] o.kind = "Unknown" ->
            <<o.val.tag, as_u8(Len(o.val.data))>> \o o.val.data
      [] OTHER -> to_option_bytes(VariantType(o.kind), o.val, to_bytes_tag(o.kind))

(***************************************************************************)
(* option.rs: DhcpOptions, a vector of OPTIONS_SIZE slots indexed by tag,  *)
(* each None or Some(option).  The vector is kept as the function from the *)
(* indexes of its occupied slots to the options in them; NoValue stands    *)
(* for None, in a slot and as an absent Option<DhcpOption> argument.       *)
(***************************************************************************)
NoValue == [kind |-> "None", val |-> <<>>]

\* A vector of OPTIONS_SIZE empty slots.
EmptySlots == [t \in {} |-> NoValue]

\* options[t] = Some(o) as it would be if an occupied slot kept its option.
set_slot_keeping_occupied(options, t, o) ==
    [x \in (DOMAIN options) \cup {t} |-> IF x \in DOMAIN options THEN options[x] ELSE o]

\* options[t] = Some(o)
set_slot(options, t, o) == [x \in (DOMAIN options) \cup {t} |-> IF x = t THEN o ELSE options[x]]

\* DhcpOptions::new_with_options: the list is collected into a HashMap keyed by
\* tag(), entry after entry, so of two entries with one tag the later stays; slot t
\* then gets the map's entry for t.
RECURSIVE collect(_, _, _)
collect(option_map, init_options, i) ==
    IF i > Len(init_options) THEN option_map
    ELSE collect(set_slot(option_map, tag(init_options[i]), init_options[i]),
                 init_options, i + 1)

new_with_options(init_options) == collect(EmptySlots, init_options, 1)

\* DhcpOptions::new
DhcpOptions_new == new_with_options(<<>>)

\* The tags of the occupied slots.
occupied(options) == DOMAIN options

Min(S) == CHOOSE x \in S : \A y \in S : x <= y

\* DhcpOptions::to_bytes: the occupied slots' encodings, in slot order.
RECURSIVE to_bytes_of(_, _)
to_bytes_of(options, slots) ==
    IF slots = {} THEN <<>>
    ELSE LET t == Min(slots)
         IN DhcpOption_to_bytes(options[t]) \o to_bytes_of(options, slots \ {t})

DhcpOptions_to_bytes(options) == to_bytes_of(options, occupied(options))

\* The loop of DhcpOptions::from_bytes.  bytes[0], bytes[1] and
\* bytes[data_start..data_end] panic when the slice is too short.
RECURSIVE from_bytes_loop(_, _)
from_bytes_loop(bytes, options) ==
    IF Len(bytes) < 1 THEN Panic
    ELSE LET t == bytes[1]
         IN IF t = PAD THEN from_bytes_loop(SliceFrom(bytes, 1), options)
            ELSE IF t = END
                 THEN Ok(set_slot(options, END, Option("End", <<>>)))
            ELSE IF Len(bytes) < 2 THEN Panic
            ELSE LET data_length == bytes[2]
                     data_start == 2
                     data_end == data_length + data_start
                 IN IF data_end > Len(bytes) THEN Panic
                    ELSE LET data == Slice(bytes, data_start, data_end)
                             r == DhcpOption_from_bytes(t, data_length, data)
                         IN IF IsOk(r)
                            THEN from_bytes_loop(SliceFrom(bytes, data_end),
                                                 set_slot(options, t, r.val))
                            ELSE r

DhcpOptions_from_bytes(bytes) == from_bytes_loop(bytes, DhcpOptions_new)

\* DhcpOptions::option
option(options, t) == IF t \in occupied(options) THEN options[t] ELSE NoValue

\* DhcpOptions::parameter_request_list: Some(data) when the slot it reads holds a
\* ParameterRequestList, None otherwise; the slot it reads is CLIENT_IDENTIFIER.
parameter_request_list(options) ==
    IF CLIENT_IDENTIFIER \in occupied(options) /\ options[CLIENT_IDENTIFIER].kind = "ParameterRequestList"
    THEN [kind |-> "Some", val |-> options[CLIENT_IDENTIFIER].val]
    ELSE NoValue

\* DhcpOptions::upsert
upsert(options, o) == set_slot(options, tag(o), o)

\* DhcpOptions::upsert_option
upsert_option(options, o) ==
    IF o = NoValue THEN options ELSE set_slot(options, tag(o), o)

\* DhcpOptions::merge: the other set's occupied slots are visited in slot order
\* and each one's value is stored under its own tag().
RECURSIVE merge_of(_, _, _)
merge_of(self, other, slots) ==
    IF slots = {} THEN self
    ELSE LET i == Min(slots)
         IN merge_of(set_slot(self, tag(other[i]), other[i]), other, slots \ {i})

merge(self, other) == merge_of(self, other, occupied(other))

\* DhcpOptions::remove
remove(options, t) == [x \in (DOMAIN options) \ {t} |-> options[x]]

(***************************************************************************)
(* dhcp.rs: DhcpPacket                                                     *)
(***************************************************************************)
DHCP_COOKIE == <<99, 130, 83, 99>>

MAC_V6_SIZE == 6
MAC_V8_SIZE == 8
MESSAGE_OPERATION_BOOT_REQUEST == 1
MESSAGE_OPERATION_BOOT_REPLY == 2
HARDWARE_ADDRESS_TYPE_ETHERNET == 1

\* The offset the options start at (OPTIONS: 240..).
OPTIONS_START == 240

UNSPECIFIED == <<0, 0, 0, 0>>

\* DhcpPacket::new
DhcpPacket_new(operation, hardware_type, hops, transaction_id, seconds, flags, client, your, server, gateway, client_hardware, server_hostname, filename, options) ==
    [operation |-> operation, hardware_type |-> hardware_type, hops |-> hops,
     transaction_id |-> transaction_id, seconds |-> seconds, flags |-> flags,
     client |-> client, your |-> your, server |-> server, gateway |-> gateway,
     client_hardware |-> client_hardware, server_hostname |-> server_hostname,
     filename |-> filename, cookie |-> "Dhcp", options |-> options]

Zeroes(n) == [i \in 1..n |-> 0]

\* bytes_fill_zeroes: `length - filled.len() as u8` is a u8 subtraction.  When the
\* text is longer than the field it overflows: a build with overflow checks
\* panics, one without wraps around.
bytes_fill_zeroes(bytes, length, overflow_checks) ==
    LET have == as_u8(Len(bytes))
    IN IF have <= length THEN Ok(bytes \o Zeroes(length - have))
       ELSE IF overflow_checks THEN Panic
       ELSE Ok(bytes \o Zeroes(length - have + 256))

\* From<DhcpPacket> for Vec<u8> as it would be with eight bytes of padding for either
\* length of address.
DhcpPacket_into_bytes_padding_eight(p, overflow_checks) ==
    LET hostname == bytes_fill_zeroes(p.server_hostname, 64, overflow_checks)
        file == bytes_fill_zeroes(p.filename, 128, overflow_checks)
    IN IF ~IsOk(hostname) \/ ~IsOk(file) THEN Panic
       ELSE Ok(<<IF p.operation = "BootRequest" THEN MESSAGE_OPERATION_BOOT_REQUEST
                 ELSE MESSAGE_OPERATION_BOOT_REPLY,
                 HARDWARE_ADDRESS_TYPE_ETHERNET,
                 Len(p.client_hardware),
                 p.hops>>
               \o u32_to_be_bytes(p.transaction_id)
               \o u16_to_be_bytes(p.seconds)
               \o (IF p.flags = "Unicast" THEN <<0, 0>> ELSE <<0, 1>>)
               \o p.client \o p.your \o p.server \o p.gateway
               \o p.client_hardware
               \o Zeroes(8)
               \o hostname.val
               \o file.val
               \o DHCP_COOKIE
               \o DhcpOptions_to_bytes(p.options))

\* From<DhcpPacket> for Vec<u8>
DhcpPacket_into_bytes(p, overflow_checks) ==
    LET hostname == bytes_fill_zeroes(p.server_hostname, 64, overflow_checks)
        file == bytes_fill_zeroes(p.filename, 128, overflow_checks)
    IN IF ~IsOk(hostname) \/ ~IsOk(file) THEN Panic
       ELSE Ok(<<IF p.operation = "BootRequest" THEN MESSAGE_OPERATION_BOOT_REQUEST
                 ELSE MESSAGE_OPERATION_BOOT_REPLY,
                 HARDWARE_ADDRESS_TYPE_ETHERNET,
                 Len(p.client_hardware),
                 p.hops>>
               \o u32_to_be_bytes(p.transaction_id)
               \o u16_to_be_bytes(p.seconds)
               \o (IF p.flags = "Unicast" THEN <<0, 0>> ELSE <<0, 1>>)
               \o p.client \o p.your \o p.server \o p.gateway
               \o p.client_hardware
               \o Zeroes(8)
               \o (IF Len(p.client_hardware) = MAC_V6_SIZE THEN Zeroes(2) ELSE <<>>)
               \o hostname.val
               \o file.val
               \o DHCP_COOKIE
               \o DhcpOptions_to_bytes(p.options))

\* The closure of into_bytes_with_server_ips over ips, one address after another:
\* bytes.splice(SERVER_IP, ip.octets()) on the one buffer, then (ip, bytes.clone())
\* collected into the HashMap, where a key met again replaces its entry.
RECURSIVE server_ips_loop(_, _, _)
server_ips_loop(bytes, ips, collected) ==
    IF ips = <<>> THEN collected
    ELSE LET ip == Head(ips)
             spliced == SubSeq(bytes, 1, 20) \o ip \o SubSeq(bytes, 25, Len(bytes))
         IN server_ips_loop(spliced, Tail(ips),
                            [k \in (DOMAIN collected) \cup {ip} |->
                                IF k = ip THEN spliced ELSE collected[k]])

\* DhcpPacket::into_bytes_with_server_ips as it would be if the address were
\* written over the gateway field, four bytes later.
into_bytes_with_server_ips_at_gateway(p, ips, overflow_checks) ==
    LET bytes == DhcpPacket_into_bytes(p, overflow_checks)
    IN IF ~IsOk(bytes) THEN Panic
       ELSE Ok([ip \in {ips[i] : i \in 1..Len(ips)} |->
                   SubSeq(bytes.val, 1, 24) \o ip \o SubSeq(bytes.val, 29, Len(bytes.val))])

\* DhcpPacket::into_bytes_with_server_ips
into_bytes_with_server_ips(p, ips, overflow_checks) ==
    LET bytes == DhcpPacket_into_bytes(p, overflow_checks)
    IN IF ~IsOk(bytes) THEN Panic
       ELSE Ok(server_ips_loop(bytes.val, ips, <<>>))

\* byte_to_char filtered over a header text field: zero and non-ASCII bytes drop out.
header_text(bytes) == SelectSeq(bytes, LAMBDA b : b # 0 /\ b < 128)

\* TryFrom<&[u8]> for DhcpPacket.  The fields are read in the order the struct
\* literal lists them; the first failure ends the decode.
DhcpPacket_try_from(value) ==
    IF Len(value) < OPTIONS_START
    THEN Err(InvalidPacketLength(as_u8(Len(value))))
    ELSE IF value[1] \notin {MESSAGE_OPERATION_BOOT_REQUEST,
                             MESSAGE_OPERATION_BOOT_REPLY}
    THEN Err(FieldError("MessageOperationInvalid"))
    ELSE IF value[2] # HARDWARE_ADDRESS_TYPE_ETHERNET
    THEN Err(FieldError("HardwareAddressTypeParseError"))
    ELSE IF Slice(value, 10, 12) \notin {<<0, 0>>, <<0, 1>>}
    THEN Err(FieldError("InvalidFlag"))
    ELSE IF value[3] \notin {6, 8}
    THEN Err(FieldError("HardwareAddressParseError"))
    ELSE IF Slice(value, 236, 240) # DHCP_COOKIE
    THEN Err(FieldError("CookieParseError"))
    ELSE LET options == DhcpOptions_from_bytes(SliceFrom(value, OPTIONS_START))
         IN IF ~IsOk(options) THEN options
            ELSE Ok([operation |-> IF value[1] = MESSAGE_OPERATION_BOOT_REQUEST
                                   THEN "BootRequest" ELSE "BootReply",
                     hardware_type |-> "Ethernet",
                     hops |-> value[4],
                     transaction_id |-> u32_from_be_bytes(Slice(value, 4, 8)),
                     seconds |-> u16_from_be_bytes(Slice(value, 8, 10)),
                     flags |-> IF Slice(value, 10, 12) = <<0, 0>>
                               THEN "Unicast" ELSE "Broadcast",
                     client |-> Slice(value, 12, 16),
                     your |-> Slice(value, 16, 20),
                     server |-> Slice(value, 20, 24),
                     gateway |-> Slice(value, 24, 28),
                     client_hardware |-> IF value[3] = 6 THEN Slice(value, 28, 34)
                                         ELSE Slice(value, 28, 36),
                     server_hostname |-> header_text(Slice(value, 44, 108)),
                     filename |-> header_text(Slice(value, 108, 236)),
                     cookie |-> "Dhcp",
                     options |-> options.val])

(***************************************************************************)
(* messaging.rs: the role wrappers and the calls that make them.  A        *)
(* wrapper is its role (the struct's name) and the packet it owns.  An     *)
(* Option<T> argument is None or Some(v).                                  *)
(***************************************************************************)
None == <<>>

Some(v) == <<v>>

\* Option::map(DhcpOption::Variant)
map(arg, variant) == IF arg = None THEN NoValue ELSE Option(variant, arg[1])

\* Option::unwrap_or
unwrap_or(arg, default) == IF arg = None THEN default ELSE arg[1]

\* Option::<AsciiString>::unwrap_or_default
unwrap_or_default(arg) == unwrap_or(arg, <<>>)

MessageType(role) == Option("MessageType", role)

\* DhcpMessaging::decline
decline(client_mac_address, random) ==
    [role |-> "Decline",
     packet |-> DhcpPacket_new("BootRequest", "Ethernet", 0, random, 0, "Unicast",
                               UNSPECIFIED, UNSPECIFIED, UNSPECIFIED, UNSPECIFIED,
                               client_mac_address, <<>>, <<>>,
                               new_with_options(<<MessageType("Decline")>>))]

\* DhcpMessaging::release: its option list and its return type are those of decline.
release(client_mac_address, client_ip_address, random) ==
    [role |-> "Decline",
     packet |-> DhcpPacket_new("BootRequest", "Ethernet", 0, random, 0, "Unicast",
                               client_ip_address, UNSPECIFIED, UNSPECIFIED, UNSPECIFIED,
                               client_mac_address, <<>>, <<>>,
                               new_with_options(<<MessageType("Decline")>>))]

\* DhcpMessaging::inform
inform(client_mac_address, client_ip_address, client_identifier, vendor_class_identifier, parameter_requested_list, maximum_accepted_size, broadcast, additional_options, random) ==
    LET o0 == new_with_options(additional_options)
        o1 == upsert(o0, MessageType("Inform"))
        o2 == upsert_option(o1, map(client_identifier, "ClientIdentifier"))
        o3 == upsert_option(o2, map(vendor_class_identifier, "VendorClassIdentifier"))
        o4 == upsert_option(o3, map(parameter_requested_list, "ParameterRequestList"))
        o5 == upsert_option(o4, map(maximum_accepted_size, "MaximumDhcpMessageSize"))
        flag == IF broadcast THEN "Broadcast" ELSE "Unicast"
    IN [role |-> "Inform",
        packet |-> DhcpPacket_new("BootRequest", "Ethernet", 0, random, 0, flag,
                                  client_ip_address, UNSPECIFIED, UNSPECIFIED,
                                  UNSPECIFIED, client_mac_address, <<>>, <<>>, o5)]

\* discover as it would be without `options.remove(SERVER_IDENTIFIER)`.
discover_keeping_server_identifier(client_mac_address, requested_ip_address, lease_time, client_identifier, vendor_class_identifier, parameter_requested_list, maximum_accepted_size, additional_options, random) ==
    LET o0 == new_with_options(additional_options)
        o1 == upsert(o0, MessageType("Discover"))
        o2 == upsert_option(o1, map(requested_ip_address, "RequestedIpAddress"))
        o3 == upsert_option(o2, map(lease_time, "IpAddressLeaseTime"))
        o4 == upsert_option(o3, map(client_identifier, "ClientIdentifier"))
        o5 == upsert_option(o4, map(vendor_class_identifier, "VendorClassIdentifier"))
        o6 == upsert_option(o5, map(parameter_requested_list, "ParameterRequestList"))
        o7 == upsert_option(o6, map(maximum_accepted_size, "MaximumDhcpMessageSize"))
    IN [role |-> "Discover",
        packet |-> DhcpPacket_new("BootRequest", "Ethernet", 0, random, 0,
                                  "Broadcast", UNSPECIFIED, UNSPECIFIED, UNSPECIFIED,
                                  UNSPECIFIED, client_mac_address, <<>>, <<>>, o7)]

\* DhcpMessaging::discover
discover(client_mac_address, requested_ip_address, lease_time, client_identifier, vendor_class_identifier, parameter_requested_list, maximum_accepted_size, additional_options, random) ==
    LET o0 == new_with_options(additional_options)
        o1 == upsert(o0, MessageType("Discover"))
        o2 == upsert_option(o1, map(requested_ip_address, "RequestedIpAddress"))
        o3 == upsert_option(o2, map(lease_time, "IpAddressLeaseTime"))
        o4 == upsert_option(o3, map(client_identifier, "ClientIdentifier"))
        o5 == upsert_option(o4, map(vendor_class_identifier, "VendorClassIdentifier"))
        o6 == upsert_option(o5, map(parameter_requested_list, "ParameterRequestList"))
        o7 == upsert_option(o6, map(maximum_accepted_size, "MaximumDhcpMessageSize"))
        o8 == remove(o7, SERVER_IDENTIFIER)
    IN [role |-> "Discover",
        packet |-> DhcpPacket_new("BootRequest", "Ethernet", 0, random, 0,
                                  "Broadcast", UNSPECIFIED, UNSPECIFIED, UNSPECIFIED,
                                  UNSPECIFIED, client_mac_address, <<>>, <<>>, o8)]

DhcpMessagePacketError == [err |-> "DhcpMessagePacketError", tag |-> 0]

MessageTypes ==
    {"Discover", "Offer", "Request", "Inform", "Release", "Decline", "Ack", "Nak"}

\* impl From<DhcpPacket> for $t, of the packet! macro: the packet is wrapped as it is.
From_DhcpPacket(role, packet) == [role |-> role, packet |-> packet]

\* The classification as it would be with the Decline arm building the wrapper
\* of the arm above it.
DhcpMessaging_try_from_wrapping_decline_as_release(packet) ==
    LET o == option(packet.options, MESSAGE_TYPE)
    IN IF o.kind = "MessageType" /\ o.val \in MessageTypes
       THEN Ok([role |-> IF o.val = "Decline" THEN "Release" ELSE o.val,
                packet |-> packet])
       ELSE Err(DhcpMessagePacketError)

\* TryFrom<DhcpPacket> for DhcpMessaging
DhcpMessaging_try_from(packet) ==
    LET o == option(packet.options, MESSAGE_TYPE)
    IN IF o.kind = "MessageType" /\ o.val \in MessageTypes
       THEN Ok([role |-> o.val, packet |-> packet])
       ELSE Err(DhcpMessagePacketError)

\* TryFrom<&[u8]> for DhcpMessaging: `value.try_into()?` then the classification.
DhcpMessaging_try_from_bytes(value) ==
    LET p == DhcpPacket_try_from(value)
    IN IF IsOk(p) THEN DhcpMessaging_try_from(p.val) ELSE p

\* into_offer as it would be if the Offer had a transaction id of its own.
into_offer_with_own_xid(self, lease, client_ip_address, server_ip_address, filename, message, additional_options) ==
    LET server_ip == server_ip_address
        o1 == merge(self.packet.options, new_with_options(additional_options))
        o2 == upsert_option(o1, map(message, "Message"))
        o3 == remove(o2, REQUESTED_IP_ADDRESS)
        o4 == remove(o3, PARAMETER_REQUEST_LIST)
        o5 == remove(o4, CLIENT_IDENTIFIER)
        o6 == remove(o5, MAXIMUM_DHCP_MESSAGE_SIZE)
        o7 == upsert(o6, Option("ServerIdentifier", server_ip))
        o8 == upsert(o7, Option("IpAddressLeaseTime", lease))
        o9 == upsert(o8, MessageType("Offer"))
    IN [role |-> "Offer",
        packet |-> [self.packet EXCEPT !.operation = "BootReply",
                                       !.transaction_id = 0,
                                       !.hardware_type = "Ethernet",
                                       !.hops = 0,
                                       !.seconds = 0,
                                       !.client = UNSPECIFIED,
                                       !.your = client_ip_address,
                                       !.server = server_ip,
                                       !.filename = unwrap_or_default(filename),
                                       !.options = o9]]

\* DhcpDiscoverPacket::into_offer
into_offer(self, lease, client_ip_address, server_ip_address, filename, message, additional_options) ==
    LET server_ip == server_ip_address
        o1 == merge(self.packet.options, new_with_options(additional_options))
        o2 == upsert_option(o1, map(message, "Message"))
        o3 == remove(o2, REQUESTED_IP_ADDRESS)
        o4 == remove(o3, PARAMETER_REQUEST_LIST)
        o5 == remove(o4, CLIENT_IDENTIFIER)
        o6 == remove(o5, MAXIMUM_DHCP_MESSAGE_SIZE)
        o7 == upsert(o6, Option("ServerIdentifier", server_ip))
        o8 == upsert(o7, Option("IpAddressLeaseTime", lease))
        o9 == upsert(o8, MessageType("Offer"))
    IN [role |-> "Offer",
        packet |-> [self.packet EXCEPT !.operation = "BootReply",
                                       !.hardware_type = "Ethernet",
                                       !.hops = 0,
                                       !.seconds = 0,
                                       !.client = UNSPECIFIED,
                                       !.your = client_ip_address,
                                       !.server = server_ip,
                                       !.filename = unwrap_or_default(filename),
                                       !.options = o9]]

\* Inform into_ack as it would be with the options replaced by the additional
\* options in place of the merge.
Inform_into_ack_replacing_options(self, client_ip_address, server_ip_address, filename, server_name, message, vendor_class_identifier, additional_options) ==
    LET o1 == new_with_options(additional_options)
        o2 == remove(o1, REQUESTED_IP_ADDRESS)
        o3 == remove(o2, PARAMETER_REQUEST_LIST)
        o4 == remove(o3, CLIENT_IDENTIFIER)
        o5 == remove(o4, MAXIMUM_DHCP_MESSAGE_SIZE)
        o6 == remove(o5, IP_ADDRESS_LEASE_TIME)
        o7 == upsert(o6, Option("ServerIdentifier", server_ip_address))
        o8 == upsert_option(o7, map(message, "Message"))
        o9 == upsert_option(o8, map(vendor_class_identifier, "VendorClassIdentifier"))
        o10 == upsert(o9, MessageType("Ack"))
    IN [role |-> "Ack",
        packet |-> [self.packet EXCEPT !.operation = "BootReply",
                                       !.hardware_type = "Ethernet",
                                       !.hops = 0,
                                       !.seconds = 0,
                                       !.client = client_ip_address,
                                       !.filename = unwrap_or_default(filename),
                                       !.server_hostname = unwrap_or_default(server_name),
                                       !.options = o10]]

\* DhcpInformPacket::into_ack
Inform_into_ack(self, client_ip_address, server_ip_address, filename, server_name, message, vendor_class_identifier, additional_options) ==
    LET o1 == merge(self.packet.options, new_with_options(additional_options))
        o2 == remove(o1, REQUESTED_IP_ADDRESS)
        o3 == remove(o2, PARAMETER_REQUEST_LIST)
        o4 == remove(o3, CLIENT_IDENTIFIER)
        o5 == remove(o4, MAXIMUM_DHCP_MESSAGE_SIZE)
        o6 == remove(o5, IP_ADDRESS_LEASE_TIME)
        o7 == upsert(o6, Option("ServerIdentifier", server_ip_address))
        o8 == upsert_option(o7, map(message, "Message"))
        o9 == upsert_option(o8, map(vendor_class_identifier, "VendorClassIdentifier"))
        o10 == upsert(o9, MessageType("Ack"))
    IN [role |-> "Ack",
        packet |-> [self.packet EXCEPT !.operation = "BootReply",
                                       !.hardware_type = "Ethernet",
                                       !.hops = 0,
                                       !.seconds = 0,
                                       !.client = client_ip_address,
                                       !.filename = unwrap_or_default(filename),
                                       !.server_hostname = unwrap_or_default(server_name),
                                       !.options = o10]]

\* Request into_ack as it would be with the additional options merged after the
\* transition's own options are set.
Request_into_ack_merging_last(self, lease, client_ip_address, server_ip_address, filename, server_name, message, vendor_class_identifier, additional_options) ==
    LET o1 == remove(self.packet.options, REQUESTED_IP_ADDRESS)
        o2 == remove(o1, PARAMETER_REQUEST_LIST)
        o3 == remove(o2, CLIENT_IDENTIFIER)
        o4 == remove(o3, MAXIMUM_DHCP_MESSAGE_SIZE)
        o5 == upsert(o4, Option("ServerIdentifier", server_ip_address))
        o6 == upsert_option(o5, map(message, "Message"))
        o7 == upsert_option(o6, map(vendor_class_identifier, "VendorClassIdentifier"))
        o8 == upsert(o7, Option("IpAddressLeaseTime", lease))
        o9 == upsert(o8, MessageType("Ack"))
        o10 == merge(o9, new_with_options(additional_options))
    IN [role |-> "Ack",
        packet |-> [self.packet EXCEPT !.operation = "BootReply",
                                       !.hardware_type = "Ethernet",
                                       !.hops = 0,
                                       !.seconds = 0,
                                       !.client = client_ip_address,
                                       !.filename = unwrap_or_default(filename),
                                       !.server_hostname = unwrap_or_default(server_name),
                                       !.options = o10]]

\* DhcpRequestPacket::into_ack
Request_into_ack(self, lease, client_ip_address, server_ip_address, filename, server_name, message, vendor_class_identifier, additional_options) ==
    LET o1 == merge(self.packet.options, new_with_options(additional_options))
        o2 == remove(o1, REQUESTED_IP_ADDRESS)
        o3 == remove(o2, PARAMETER_REQUEST_LIST)
        o4 == remove(o3, CLIENT_IDENTIFIER)
        o5 == remove(o4, MAXIMUM_DHCP_MESSAGE_SIZE)
        o6 == upsert(o5, Option("ServerIdentifier", server_ip_address))
        o7 == upsert_option(o6, map(message, "Message"))
        o8 == upsert_option(o7, map(vendor_class_identifier, "VendorClassIdentifier"))
        o9 == upsert(o8, Option("IpAddressLeaseTime", lease))
        o10 == upsert(o9, MessageType("Ack"))
    IN [role |-> "Ack",
        packet |-> [self.packet EXCEPT !.operation = "BootReply",
                                       !.hardware_type = "Ethernet",
                                       !.hops = 0,
                                       !.seconds = 0,
                                       !.client = client_ip_address,
                                       !.filename = unwrap_or_default(filename),
                                       !.server_hostname = unwrap_or_default(server_name),
                                       !.options = o10]]

\* into_nak as it would be without `remove(CLIENT_IDENTIFIER)`.
into_nak_keeping_client_identifier(self, server_ip_address, message, client_identifier, vendor_class_identifier) ==
    LET server_ip == server_ip_address
        o1 == remove(self.packet.options, REQUESTED_IP_ADDRESS)
        o2 == remove(o1, IP_ADDRESS_LEASE_TIME)
        o3 == remove(o2, PARAMETER_REQUEST_LIST)
        o4 == o3
        o5 == remove(o4, MAXIMUM_DHCP_MESSAGE_SIZE)
        o6 == upsert(o5, Option("ServerIdentifier", server_ip))
        o7 == upsert_option(o6, map(message, "Message"))
        o8 == upsert(o7, MessageType("Nak"))
        o9 == upsert_option(o8, map(client_identifier, "ClientIdentifier"))
        o10 == upsert_option(o9, map(vendor_class_identifier, "VendorClassIdentifier"))
    IN [role |-> "Nak",
        packet |-> [self.packet EXCEPT !.your = UNSPECIFIED,
                                       !.server = UNSPECIFIED,
                                       !.operation = "BootReply",
                                       !.hops = 0,
                                       !.hardware_type = "Ethernet",
                                       !.seconds = 0,
                                       !.options = o10]]

\* into_nak as it would be if it returned a DhcpRequestPacket.
into_nak_returning_request(self, server_ip_address, message, client_identifier, vendor_class_identifier) ==
    LET server_ip == server_ip_address
        o1 == remove(self.packet.options, REQUESTED_IP_ADDRESS)
        o2 == remove(o1, IP_ADDRESS_LEASE_TIME)
        o3 == remove(o2, PARAMETER_REQUEST_LIST)
        o4 == remove(o3, CLIENT_IDENTIFIER)
        o5 == remove(o4, MAXIMUM_DHCP_MESSAGE_SIZE)
        o6 == upsert(o5, Option("ServerIdentifier", server_ip))
        o7 == upsert_option(o6, map(message, "Message"))
        o8 == upsert(o7, MessageType("Nak"))
        o9 == upsert_option(o8, map(client_identifier, "ClientIdentifier"))
        o10 == upsert_option(o9, map(vendor_class_identifier, "VendorClassIdentifier"))
    IN [role |-> "Request",
        packet |-> [self.packet EXCEPT !.your = UNSPECIFIED,
                                       !.server = UNSPECIFIED,
                                       !.operation = "BootReply",
                                       !.hops = 0,
                                       !.hardware_type = "Ethernet",
                                       !.seconds = 0,
                                       !.options = o10]]

\* DhcpRequestPacket::into_nak
into_nak(self, server_ip_address, message, client_identifier, vendor_class_identifier) ==
    LET server_ip == server_ip_address
        o1 == remove(self.packet.options, REQUESTED_IP_ADDRESS)
        o2 == remove(o1, IP_ADDRESS_LEASE_TIME)
        o3 == remove(o2, PARAMETER_REQUEST_LIST)
        o4 == remove(o3, CLIENT_IDENTIFIER)
        o5 == remove(o4, MAXIMUM_DHCP_MESSAGE_SIZE)
        o6 == upsert(o5, Option("ServerIdentifier", server_ip))
        o7 == upsert_option(o6, map(message, "Message"))
        o8 == upsert(o7, MessageType("Nak"))
        o9 == upsert_option(o8, map(client_identifier, "ClientIdentifier"))
        o10 == upsert_option(o9, map(vendor_class_identifier, "VendorClassIdentifier"))
    IN [role |-> "Nak",
        packet |-> [self.packet EXCEPT !.your = UNSPECIFIED,
                                       !.server = UNSPECIFIED,
                                       !.operation = "BootReply",
                                       !.hops = 0,
                                       !.hardware_type = "Ethernet",
                                       !.seconds = 0,
                                       !.options = o10]]

\* into_request as it would be without `self.packet.gateway = Ipv4Addr::UNSPECIFIED`.
into_request_keeping_gateway(self, client_hardware_address, seconds, client_ip_address, broadcast, requested_ip_address, lease_time, client_identifier, vendor_class_identifier, server_identifier, parameter_requested_list, maximum_accepted_size, additional_options) ==
    LET o0 == new_with_options(additional_options)
        o1 == upsert(o0, MessageType("Request"))
        o2 == upsert_option(o1, map(requested_ip_address, "RequestedIpAddress"))
        o3 == upsert_option(o2, map(lease_time, "IpAddressLeaseTime"))
        o4 == upsert_option(o3, map(client_identifier, "ClientIdentifier"))
        o5 == upsert_option(o4, map(vendor_class_identifier, "VendorClassIdentifier"))
        o6 == upsert_option(o5, map(server_identifier, "ServerIdentifier"))
        o7 == upsert_option(o6, map(parameter_requested_list, "ParameterRequestList"))
        o8 == upsert_option(o7, map(maximum_accepted_size, "MaximumDhcpMessageSize"))
        flags == IF broadcast THEN "Broadcast" ELSE "Unicast"
    IN [role |-> "Request",
        packet |-> [self.packet EXCEPT
                       !.operation = "BootRequest",
                       !.hardware_type = "Ethernet",
                       !.hops = 0,
                       !.seconds = seconds,
                       !.flags = flags,
                       !.client_hardware = client_hardware_address,
                       !.client = unwrap_or(client_ip_address, UNSPECIFIED),
                       !.your = UNSPECIFIED,
                       !.server = UNSPECIFIED,
                       !.options = merge(self.packet.options, o8)]]

\* into_request as it would be if it asked for the offered address whenever the
\* caller names none.
into_request_asking_for_offered_address(self, client_hardware_address, seconds, client_ip_address, broadcast, requested_ip_address, lease_time, client_identifier, vendor_class_identifier, server_identifier, parameter_requested_list, maximum_accepted_size, additional_options) ==
    LET o0 == new_with_options(additional_options)
        o1 == upsert(o0, MessageType("Request"))
        o2 == upsert(o1, Option("RequestedIpAddress", unwrap_or(requested_ip_address, self.packet.your)))
        o3 == upsert_option(o2, map(lease_time, "IpAddressLeaseTime"))
        o4 == upsert_option(o3, map(client_identifier, "ClientIdentifier"))
        o5 == upsert_option(o4, map(vendor_class_identifier, "VendorClassIdentifier"))
        o6 == upsert_option(o5, map(server_identifier, "ServerIdentifier"))
        o7 == upsert_option(o6, map(parameter_requested_list, "ParameterRequestList"))
        o8 == upsert_option(o7, map(maximum_accepted_size, "MaximumDhcpMessageSize"))
        flags == IF broadcast THEN "Broadcast" ELSE "Unicast"
    IN [role |-> "Request",
        packet |-> [self.packet EXCEPT
                       !.operation = "BootRequest",
                       !.hardware_type = "Ethernet",
                       !.hops = 0,
                       !.seconds = seconds,
                       !.flags = flags,
                       !.client_hardware = client_hardware_address,
                       !.client = unwrap_or(client_ip_address, UNSPECIFIED),
                       !.your = UNSPECIFIED,
                       !.server = UNSPECIFIED,
                       !.gateway = UNSPECIFIED,
                       !.options = merge(self.packet.options, o8)]]

\* DhcpOfferPacket::into_request
into_request(self, client_hardware_address, seconds, client_ip_address, broadcast, requested_ip_address, lease_time, client_identifier, vendor_class_identifier, server_identifier, parameter_requested_list, maximum_accepted_size, additional_options) ==
    LET o0 == new_with_options(additional_options)
        o1 == upsert(o0, MessageType("Request"))
        o2 == upsert_option(o1, map(requested_ip_address, "RequestedIpAddress"))
        o3 == upsert_option(o2, map(lease_time, "IpAddressLeaseTime"))
        o4 == upsert_option(o3, map(client_identifier, "ClientIdentifier"))
        o5 == upsert_option(o4, map(vendor_class_identifier, "VendorClassIdentifier"))
        o6 == upsert_option(o5, map(server_identifier, "ServerIdentifier"))
        o7 == upsert_option(o6, map(parameter_requested_list, "ParameterRequestList"))
        o8 == upsert_option(o7, map(maximum_accepted_size, "MaximumDhcpMessageSize"))
        flags == IF broadcast THEN "Broadcast" ELSE "Unicast"
    IN [role |-> "Request",
        packet |-> [self.packet EXCEPT
                       !.operation = "BootRequest",
                       !.hardware_type = "Ethernet",
                       !.hops = 0,
                       !.seconds = seconds,
                       !.flags = flags,
                       !.client_hardware = client_hardware_address,
                       !.client = unwrap_or(client_ip_address, UNSPECIFIED),
                       !.your = UNSPECIFIED,
                       !.server = UNSPECIFIED,
                       !.gateway = UNSPECIFIED,
                       !.options = merge(self.packet.options, o8)]]

(***************************************************************************)
(* State                                                                   *)
(***************************************************************************)
VARIABLES
    pc,         \* the step the run is at
    optval,     \* a DhcpOption value handed to DhcpOption::to_bytes
    wire,       \* bytes: an encoded option, or a buffer given to DhcpPacket::try_from
    outcome,    \* the Result of the last decode
    rewire,     \* the bytes of the decoded packet serialized again
    msg,        \* the role wrapper (DhcpMessaging variant) the exchange is at
    call,       \* the name and the arguments of the call that produced msg
    supplied,   \* how many optional values the callers have passed so far
    opts,       \* a DhcpOptions set
    last,       \* the last operation on opts: its name, its arguments, opts before it
    chain,      \* the exchange so far: for each message, the call that made it, its role, its xid
    heard       \* what DhcpPacket::try_from returns to the side that receives msg

vars == <<pc, optval, wire, outcome, rewire, msg, call, supplied, opts, last, chain, heard>>

NoMsg == [role |-> "None", packet |-> <<>>]

\* Nothing was sent yet.
NotHeard == [res |-> "None", packet |-> <<>>]

\* The call that made msg: its name, the wrapper it was called on and its arguments.
NoCall ==
    [op |-> "none", self |-> NoMsg, random |-> 0, client_mac_address |-> <<>>,
     client_ip_address |-> None, server_ip_address |-> <<>>, lease |-> 0,
     seconds |-> 0, broadcast |-> FALSE, requested_ip_address |-> None,
     lease_time |-> None, client_identifier |-> None,
     vendor_class_identifier |-> None, server_identifier |-> None,
     parameter_requested_list |-> None, maximum_accepted_size |-> None,
     filename |-> None, server_name |-> None, message |-> None,
     additional_options |-> <<>>]

NoOutcome == [res |-> "None", val |-> <<>>]

(***************************************************************************)
(* Bounds of the model                                                     *)
(***************************************************************************)
\* The longest list, text or byte string an option value holds.
MaxList == 2

(***************************************************************************)
(* The option values the codec is run on: for every variant of DhcpOption, *)
(* values that meet the RFC 2132 / RFC 3046 constraints of its tag (at     *)
(* least one element, sizes of at least 576, a TTL of at least 1).         *)
(***************************************************************************)
SeqsOf(S, lo, hi) == UNION {[1..n -> S] : n \in lo..hi}

Ips == {<<0, 0, 0, 0>>, <<1, 2, 3, 4>>, <<192, 168, 0, 255>>}

Variants ==
    {"Pad", "End", "ClientIdentifier", "Unknown", "MaximumDatagramReassemblySize",
     "MaximumDhcpMessageSize", "TcpDefaultTTL"}
    \cup {from_bytes_arm(t).variant : t \in PlainTags}

\* Tags no arm of DhcpOption::from_bytes names.
UnknownTags == (0..255) \ (PlainTags \cup {PAD, END, CLIENT_IDENTIFIER, TCP_DEFAULT_TTL,
                   MAXIMUM_DATAGRAM_REASSEMBLY_SIZE, MAXIMUM_DHCP_MESSAGE_SIZE})

ValuesOfType(type) ==
    CASE type = "unit" -> {<<>>}
      [] type = "ipv4" -> Ips
      [] type = "ipv4vec" -> SeqsOf({<<1, 2, 3, 4>>, <<192, 168, 0, 255>>}, 1, MaxList)
      [] type = "u8" -> {1, 64, 255}
      [] type = "u16" -> {576, 1500, 65535}
      [] type = "u32" -> {0, 7200, 2147483647}
      [] type = "i32" -> {0, 3600, -1, -3600, 2147483647, -2147483647}
      [] type = "ascii" -> SeqsOf({65, 122}, 1, MaxList)
      [] type = "bool" -> BOOLEAN
      [] type = "pairs" -> SeqsOf({<<<<1, 2, 3, 4>>, <<255, 255, 255, 0>>>>,
                                   <<<<10, 0, 0, 0>>, <<10, 0, 0, 1>>>>}, 1, MaxList)
      [] type = "bytes" -> SeqsOf({0, 1, 255}, 1, MaxList)
      [] type = "u16vec" -> SeqsOf({68, 1500}, 1, MaxList)
      [] type = "nodetype" -> {"B", "P", "M", "H"}
      [] type = "overload" -> {"File", "Sname", "Both"}
      [] type = "msgtype" -> {"Discover", "Offer", "Request", "Decline", "Ack",
                              "Nak", "Release", "Inform"}
      [] type = "clientid" -> [typ : {0, 1, 255}, data : SeqsOf({1, 7}, 0, MaxList)]
      [] type = "relay" -> SeqsOf([sub : {"AgentCircuit", "AgentRemote", "Unknown"},
                                   data : SeqsOf({5}, 0, 1)], 1, MaxList)
      [] type = "unknown" -> [tag : {62, 63, 77, 254}, data : SeqsOf({0, 9}, 0, MaxList)]

OptionValues ==
    UNION {{Option(variant, v) : v \in ValuesOfType(VariantType(variant))} :
             variant \in Variants}


\* No operation on opts yet.
NoLast ==
    [op |-> "none", before |-> EmptySlots, list |-> <<>>, option |-> NoValue,
     tag |-> 0, other |-> EmptySlots]
(***************************************************************************)
(* CodecSpec: one option value is encoded and the bytes are decoded again, *)
(* or a payload that came off the wire is decoded.                         *)
(***************************************************************************)
\* The longest payload handed to DhcpOption::from_bytes, in bytes.
MaxPayload == 4

\* The most chunks of a payload handed to a list decoder.
MaxChunks == 2

\* The tags DhcpOption::from_bytes is called with on a received payload: the three
\* with a constraint on the value, and one of each list type.
ReceivedTags ==
    {MAXIMUM_DATAGRAM_REASSEMBLY_SIZE, MAXIMUM_DHCP_MESSAGE_SIZE, TCP_DEFAULT_TTL,
     ROUTER, STATIC_ROUTE, PATH_MTU_PLATEAU_TABLE}

\* The payloads it is called with: 575 is <<2, 63>> and 576 is <<2, 64>>.
ReceivedPayloads == SeqsOf({0, 1, 2, 63, 64, 255}, 0, MaxPayload)

\* The payloads the list decoders are called with: every length up to one byte past
\* MaxChunks of the longest chunk, no two bytes of a payload the same.
ListPayloads ==
    {[i \in 1..n |-> base + i] : n \in 0..(8 * MaxChunks + 1), base \in {0, 100}}

CodecInit ==
    /\ \/ pc = "value" /\ optval \in OptionValues
       \/ pc = "bytes" /\ optval = NoValue
    /\ wire = <<>>
    /\ outcome = NoOutcome
    /\ rewire = NoOutcome
    /\ opts = EmptySlots
    /\ last = NoLast
    /\ chain = <<>>
    /\ heard = NotHeard
    /\ msg = NoMsg
    /\ call = NoCall
    /\ supplied = 0

\* DhcpOption::to_bytes on optval.
Encode ==
    /\ pc = "value"
    /\ wire' = DhcpOption_to_bytes(optval)
    /\ pc' = "encoded"
    /\ UNCHANGED <<opts, last, optval, outcome, rewire, msg, call, supplied, chain, heard>>

\* DhcpOption::from_bytes(tag, length, payload) on what Encode emitted: byte 0 is the
\* tag, byte 1 the length, the bytes after it the payload (Pad and End are one byte).
Decode ==
    /\ pc = "encoded"
    /\ outcome' = IF Len(wire) < 2 THEN DhcpOption_from_bytes(wire[1], 0, <<>>)
                  ELSE DhcpOption_from_bytes(wire[1], wire[2], SliceFrom(wire, 2))
    /\ pc' = "decoded"
    /\ UNCHANGED <<opts, last, optval, wire, rewire, msg, call, supplied, chain, heard>>

\* DhcpOption::from_bytes(tag, length, payload) on a received payload.  The option
\* it returns is held in optval, and outcome records whether the call succeeded and,
\* when it did not, its error.
DecodeBytes ==
    /\ pc = "bytes"
    /\ \E t \in ReceivedTags, data \in ReceivedPayloads :
          LET r == DhcpOption_from_bytes(t, Len(data), data)
          IN /\ wire' = data
             /\ outcome' = IF IsOk(r) THEN Ok(NoValue) ELSE r
             /\ optval' = IF IsOk(r) THEN r.val ELSE optval
             /\ last' = [NoLast EXCEPT !.op = "from_bytes", !.tag = t]
    /\ pc' = "received"
    /\ UNCHANGED <<opts, rewire, msg, call, supplied, chain, heard>>

\* <&[u8] as TryToOption<T>>::try_from_option(tag) on a received payload, for the
\* list types, the relay agent sub-options, bool and the fixed-width integers.  The
\* payload type is held in last.option, and the value returned in optval under it.
\* The integers of the model are 32-bit signed, so a u32 payload starts below 128.
TryFromOption ==
    /\ pc = "bytes"
    /\ \E type \in {"ipv4vec", "pairs", "u16vec", "relay", "bool", "u8", "u16", "u32", "i32"},
          t \in {ROUTER, STATIC_ROUTE, PATH_MTU_PLATEAU_TABLE} :
          \E data \in IF type \in {"ipv4vec", "pairs", "u16vec"} THEN ListPayloads
                       ELSE IF type = "u32"
                       THEN {d \in ReceivedPayloads : Len(d) < 1 \/ d[1] < 128}
                       ELSE ReceivedPayloads :
             /\ wire' = data
             /\ outcome' = IF IsOk(try_from_option(type, data, t))
                            THEN Ok(NoValue) ELSE try_from_option(type, data, t)
             /\ optval' = IF IsOk(outcome')
                           THEN [kind |-> type, val |-> try_from_option(type, data, t).val]
                           ELSE NoValue
             /\ last' = [NoLast EXCEPT !.op = "try_from_option", !.tag = t,
                                       !.option = [kind |-> type, val |-> <<>>]]
    /\ pc' = "received"
    /\ UNCHANGED <<opts, rewire, msg, call, supplied, chain, heard>>

CodecNext == Encode \/ Decode \/ DecodeBytes \/ TryFromOption

CodecSpec == CodecInit /\ [][CodecNext]_vars

\* C1: for every option kind and every valid value v of it, decoding what
\* DhcpOption::to_bytes emitted for v with DhcpOption::from_bytes(tag, length,
\* payload) returns a value equal to v.
C1_DecodeEncodeIsIdentity == pc = "decoded" => outcome = Ok(optval)

\* C2: for every value other than Pad and End, DhcpOption::to_bytes emits the
\* option's tag as byte 0, a length byte as byte 1 and the payload after it, and the
\* length byte equals the number of payload bytes that follow it.
C2_TagLengthPayload ==
    (pc = "encoded" /\ optval.kind \notin {"Pad", "End"})
        => /\ Len(wire) >= 2
           /\ wire[1] = tag(optval)
           /\ wire[2] = Len(wire) - 2

(***************************************************************************)
(* PacketSpec: a byte buffer is handed to DhcpPacket::try_from and, when   *)
(* it decodes, the packet is serialized again.                             *)
(***************************************************************************)
\* The longest options area of a buffer.
MaxOptLen == 4

\* The most addresses handed to into_bytes_with_server_ips.
MaxIps == 2

\* The header of client_request.bin, the capture the crate's tests decode.
CapturedHeader ==
    [op |-> 1, htype |-> 1, hlen |-> 6, hops |-> 0, xid |-> <<0, 0, 61, 29>>,
     secs |-> <<0, 0>>, flags |-> <<0, 0>>, ciaddr |-> UNSPECIFIED,
     yiaddr |-> UNSPECIFIED, siaddr |-> UNSPECIFIED, giaddr |-> UNSPECIFIED,
     chaddr |-> <<0, 11, 130, 1, 252, 66>> \o Zeroes(10),
     sname |-> Zeroes(64), file |-> Zeroes(128), cookie |-> DHCP_COOKIE]

\* The 240 bytes of a fixed header, field after field (RFC 2131 figure 1).
HeaderBytes(h) ==
    <<h.op, h.htype, h.hlen, h.hops>> \o h.xid \o h.secs \o h.flags
    \o h.ciaddr \o h.yiaddr \o h.siaddr \o h.giaddr \o h.chaddr
    \o h.sname \o h.file \o h.cookie

\* Headers every field of which DhcpPacket::try_from accepts.
ValidHeaders ==
    {CapturedHeader,
     [CapturedHeader EXCEPT !.op = 2, !.flags = <<0, 1>>, !.hops = 3,
                            !.secs = <<1, 2>>, !.yiaddr = <<192, 168, 0, 10>>,
                            !.siaddr = <<192, 168, 0, 1>>,
                            !.giaddr = <<10, 0, 0, 1>>],
     [CapturedHeader EXCEPT !.hlen = 8, !.ciaddr = <<1, 2, 3, 4>>,
                            !.chaddr = <<0, 11, 130, 1, 252, 66, 7, 8>> \o Zeroes(8)],
     [CapturedHeader EXCEPT !.sname = <<104, 111, 115, 116>> \o Zeroes(60),
                            !.file = <<98, 111, 111, 116>> \o Zeroes(124)]}

\* Headers with one field DhcpPacket::try_from rejects.
InvalidHeaders ==
    {[CapturedHeader EXCEPT !.op = 3],
     [CapturedHeader EXCEPT !.htype = 6],
     [CapturedHeader EXCEPT !.hlen = 7],
     [CapturedHeader EXCEPT !.flags = <<128, 0>>],
     [CapturedHeader EXCEPT !.cookie = <<99, 130, 83, 0>>]}

\* The bytes options areas are made of: Pad, two lengths, the tags of a u8 option
\* (DEFAULT_IP_TTL), of an address option (REQUESTED_IP_ADDRESS) and End.
OptionAreaBytes == {PAD, 1, 4, DEFAULT_IP_TTL, REQUESTED_IP_ADDRESS, END}

\* Headers for the hardware address: bytes after the 6 or 8 octets that are not
\* zero, lengths that are neither 6 nor 8, and one with the op byte wrong as well.
HardwareHeaders ==
    {[CapturedHeader EXCEPT !.chaddr = <<0, 11, 130, 1, 252, 66, 7, 8>> \o Zeroes(8)],
     [CapturedHeader EXCEPT !.hlen = 8,
                            !.chaddr = <<0, 11, 130, 1, 252, 66, 7, 8, 9>> \o Zeroes(7)],
     [CapturedHeader EXCEPT !.hlen = 0],
     [CapturedHeader EXCEPT !.hlen = 16],
     [CapturedHeader EXCEPT !.hlen = 7, !.op = 3]}

Buffers ==
    {HeaderBytes(h) \o area :
        h \in ValidHeaders, area \in SeqsOf(OptionAreaBytes, 0, MaxOptLen)}
    \cup {HeaderBytes(h) \o <<END>> : h \in InvalidHeaders \cup HardwareHeaders}
    \cup {SubSeq(HeaderBytes(CapturedHeader), 1, n) : n \in {0, 10, 239}}

\* The longest server hostname or boot filename a packet is built with.
MaxText == 129

\* The packets DhcpPacket::new builds: texts that fill a field, or are longer by
\* one, with either length of hardware address.
BuiltPackets ==
    {DhcpPacket_new("BootReply", "Ethernet", 0, 7, 0, "Unicast", UNSPECIFIED,
                    <<1, 2, 3, 4>>, <<5, 6, 7, 8>>, UNSPECIFIED, client_hardware,
                    [i \in 1..host |-> 104], [i \in 1..file |-> 102], options) :
        client_hardware \in {<<0, 1, 2, 3, 4, 5>>, <<0, 1, 2, 3, 4, 5, 6, 7>>},
        host \in {0, 3, 64, 65, MaxText},
        file \in {0, 4, 128, MaxText},
        options \in {EmptySlots, new_with_options(<<MessageType("Ack"), Option("End", <<>>)>>)}}

\* A run starts with a buffer to decode, or with a packet DhcpPacket::new built.
PacketInit ==
    /\ \/ /\ pc = "buffer"
          /\ wire \in Buffers
          /\ outcome = NoOutcome
       \/ /\ pc = "built"
          /\ wire = <<>>
          /\ outcome \in {Ok(p) : p \in BuiltPackets}
    /\ optval = NoValue
    /\ rewire = NoOutcome
    /\ opts = EmptySlots
    /\ last = NoLast
    /\ chain = <<>>
    /\ heard = NotHeard
    /\ msg = NoMsg
    /\ call = NoCall
    /\ supplied = 0

\* DhcpPacket::try_from(&wire[..])
TryFrom ==
    /\ pc = "buffer"
    /\ outcome' = DhcpPacket_try_from(wire)
    /\ pc' = "parsed"
    /\ UNCHANGED <<opts, last, optval, wire, rewire, msg, call, supplied, chain, heard>>

\* Vec::<u8>::from(packet) on the packet TryFrom returned, or on the packet built.
Reencode ==
    /\ pc \in {"parsed", "built"}
    /\ IsOk(outcome)
    /\ \E overflow_checks \in BOOLEAN :
          rewire' = DhcpPacket_into_bytes(outcome.val, overflow_checks)
    /\ pc' = IF pc = "built" THEN "serialized" ELSE "reencoded"
    /\ UNCHANGED <<opts, last, optval, wire, outcome, msg, call, supplied, chain, heard>>

\* packet.into_bytes_with_server_ips(ips) on the packet TryFrom returned.  The map
\* it returns is held in last.other under the addresses, the list in last.list, and
\* rewire holds what Vec::<u8>::from(packet) gives in the same build.
IntoBytesWithServerIps ==
    /\ pc = "parsed"
    /\ IsOk(outcome)
    /\ \E overflow_checks \in BOOLEAN,
          ips \in SeqsOf({<<10, 0, 0, 1>>, <<10, 0, 0, 2>>}, 0, MaxIps) :
          /\ rewire' = DhcpPacket_into_bytes(outcome.val, overflow_checks)
          /\ last' = [NoLast EXCEPT
                         !.op = "into_bytes_with_server_ips",
                         !.list = ips,
                         !.other = into_bytes_with_server_ips(outcome.val, ips,
                                                              overflow_checks).val]
    /\ pc' = "specialized"
    /\ UNCHANGED <<opts, optval, wire, outcome, msg, call, supplied, chain, heard>>

PacketNext == TryFrom \/ Reencode \/ IntoBytesWithServerIps

PacketSpec == PacketInit /\ [][PacketNext]_vars

\* C3: for every byte buffer given to DhcpPacket::try_from, decoding returns a
\* packet or a DhcpError value; it never panics.
C3_TryFromNeverPanics == pc = "parsed" => outcome.res \in {"Ok", "Err"}

\* C4: a buffer of exactly 240 bytes holding a valid fixed header and no options
\* decodes, and the packet serialized again starts with the same 240 bytes.
C4_HeaderRoundTrip ==
    /\ (pc = "parsed" /\ Len(wire) = OPTIONS_START) => IsOk(outcome)
    /\ (pc = "reencoded" /\ Len(wire) = OPTIONS_START)
          => /\ IsOk(rewire)
             /\ Len(rewire.val) >= OPTIONS_START
             /\ SubSeq(rewire.val, 1, OPTIONS_START) = wire

(***************************************************************************)
(* OptionsSpec: a DhcpOptions set is built from a list, or decoded from a  *)
(* stream of bytes, and then changed and serialized by its operations.     *)
(***************************************************************************)
\* The longest list a set is built from, and the most options of a stream.
MaxBuilt == 2

\* The options the sets are made of: two of one tag, the two options
\* DhcpOption::tag stores in slot NETBIOS_OVER_TCP_IP_NAME_SERVER, and a list of
\* requested parameters.
OptionPool ==
    {Option("SubnetMask", <<255, 255, 255, 0>>),
     MessageType("Discover"),
     MessageType("Offer"),
     Option("NetworkTimeProtocolServers", <<<<10, 0, 0, 1>>>>),
     Option("NetBiosOverTcpIpNameServer", <<<<10, 0, 0, 2>>>>),
     Option("NetworkInformationServers", <<<<10, 0, 0, 3>>>>),
     Option("ParameterRequestList", <<SUBNET_MASK, ROUTER>>),
     Option("End", <<>>)}

\* The encoded options the streams are made of, Pad among them.
StreamItems ==
    {<<PAD>>,
     <<DEFAULT_IP_TTL, 1, 64>>,
     <<DEFAULT_IP_TTL, 1, 65>>,
     <<SUBNET_MASK, 4, 255, 255, 255, 0>>,
     <<NETWORK_INFORMATION_SERVERS, 4, 10, 0, 0, 3>>,
     <<224, 2, END, PAD>>,
     <<PERFORM_MASK_DISCOVERY, 1, 1>>,
     <<PARAMETER_REQUEST_LIST, 2, SUBNET_MASK, ROUTER>>,
     <<DEFAULT_IP_TTL, 0>>}

\* The streams handed to DhcpOptions::from_bytes: at most MaxBuilt encoded options,
\* then an End and whatever follows it, or no End at all.
Streams ==
    {Flatten(items) \o rest :
        items \in SeqsOf(StreamItems, 0, MaxBuilt),
        rest \in {<<END>>, <<END, DEFAULT_IP_TTL, 1, 66, END>>, <<END, 9>>, <<>>}}

\* The sets handed to merge: built from a list, or decoded from a stream.
MergedSets ==
    {new_with_options(list) :
        list \in SeqsOf({MessageType("Offer"),
                         Option("NetBiosOverTcpIpNameServer", <<<<10, 0, 0, 2>>>>),
                         Option("NetworkInformationServers", <<<<10, 0, 0, 3>>>>)},
                        0, MaxBuilt)}
    \cup {DhcpOptions_from_bytes(bytes).val :
            bytes \in {<<NETWORK_INFORMATION_SERVERS, 4, 10, 0, 0, 3, END>>,
                       <<SUBNET_MASK, 4, 255, 255, 0, 0, END>>}}

\* The tags handed to remove.
RemovedTags == {tag(o) : o \in OptionPool} \cup {NETWORK_INFORMATION_SERVERS, ROUTER}

OptionsInit ==
    /\ pc = "new"
    /\ opts = EmptySlots
    /\ last = NoLast
    /\ chain = <<>>
    /\ heard = NotHeard
    /\ optval = NoValue
    /\ wire = <<>>
    /\ outcome = NoOutcome
    /\ rewire = NoOutcome
    /\ msg = NoMsg
    /\ call = NoCall
    /\ supplied = 0

\* DhcpOptions::from(list): new_with_options
NewWithOptions ==
    /\ pc = "new"
    /\ \E list \in SeqsOf(OptionPool, 0, MaxBuilt) :
          /\ opts' = new_with_options(list)
          /\ last' = [NoLast EXCEPT !.op = "new_with_options", !.list = list]
    /\ pc' = "set"
    /\ UNCHANGED <<optval, wire, outcome, rewire, msg, call, supplied, chain, heard>>

\* DhcpOptions::from_bytes: the decoded set is held in opts, and outcome records
\* whether the call succeeded and, when it did not, its error.
FromBytes ==
    /\ pc = "new"
    /\ \E bytes \in Streams :
          LET r == DhcpOptions_from_bytes(bytes)
          IN /\ wire' = bytes
             /\ outcome' = IF IsOk(r) THEN Ok(NoValue) ELSE r
             /\ opts' = IF IsOk(r) THEN r.val ELSE opts
    /\ last' = [NoLast EXCEPT !.op = "from_bytes"]
    /\ pc' = "decoded"
    /\ UNCHANGED <<optval, rewire, msg, call, supplied, chain, heard>>

\* DhcpOptions::upsert
Upsert ==
    /\ pc = "set"
    /\ \E o \in OptionPool :
          /\ opts' = upsert(opts, o)
          /\ last' = [NoLast EXCEPT !.op = "upsert", !.before = opts, !.option = o]
    /\ UNCHANGED <<pc, optval, wire, outcome, rewire, msg, call, supplied, chain, heard>>

\* DhcpOptions::upsert_option
UpsertOption ==
    /\ pc = "set"
    /\ \E o \in OptionPool \cup {NoValue} :
          /\ opts' = upsert_option(opts, o)
          /\ last' = [NoLast EXCEPT !.op = "upsert_option", !.before = opts,
                                    !.option = o]
    /\ UNCHANGED <<pc, optval, wire, outcome, rewire, msg, call, supplied, chain, heard>>

\* DhcpOptions::remove
Remove ==
    /\ pc = "set"
    /\ \E t \in RemovedTags :
          /\ opts' = remove(opts, t)
          /\ last' = [NoLast EXCEPT !.op = "remove", !.before = opts, !.tag = t]
    /\ UNCHANGED <<pc, optval, wire, outcome, rewire, msg, call, supplied, chain, heard>>

\* DhcpOptions::merge
Merge ==
    /\ pc = "set"
    /\ \E other \in MergedSets :
          /\ opts' = merge(opts, other)
          /\ last' = [NoLast EXCEPT !.op = "merge", !.before = opts, !.other = other]
    /\ UNCHANGED <<pc, optval, wire, outcome, rewire, msg, call, supplied, chain, heard>>

\* DhcpOptions::to_bytes
ToBytes ==
    /\ pc = "set"
    /\ wire' = DhcpOptions_to_bytes(opts)
    /\ last' = [NoLast EXCEPT !.op = "to_bytes", !.before = opts]
    /\ pc' = "serialized"
    /\ UNCHANGED <<opts, optval, outcome, rewire, msg, call, supplied, chain, heard>>

OptionsNext ==
    \/ NewWithOptions
    \/ FromBytes
    \/ Upsert
    \/ UpsertOption
    \/ Remove
    \/ Merge
    \/ ToBytes

OptionsSpec == OptionsInit /\ [][OptionsNext]_vars

(***************************************************************************)
(* Spec: one exchange.  A client constructor makes the first message, or a *)
(* received packet is classified; then the transitions the wrappers offer  *)
(* are called one after the other.                                         *)
(***************************************************************************)
\* The most optional values (Some(..) arguments and additional options) the
\* callers pass in one exchange.
MaxSupplied == 2

\* The hardware address of the client that opens an exchange.
ClientMacs == {<<0, 1, 2, 3, 4, 5>>}

\* The hardware addresses into_request is called with.
Macs == ClientMacs \cup {<<0, 1, 2, 3, 4, 5, 6, 7>>}

\* What rand::random() may return.
Xids == {15645, 7}

ClientIps == {<<1, 2, 3, 4>>}

ServerIps == {<<5, 6, 7, 8>>}

Leases == {7200}

Seconds == {2}

\* The value a caller passes for each optional argument when it passes one.
ArgValue ==
    [requested_ip_address |-> <<1, 2, 3, 4>>,
     lease_time |-> 3600,
     client_identifier |-> [typ |-> 1, data |-> <<0, 1>>],
     vendor_class_identifier |-> <<77, 83>>,
     server_identifier |-> <<5, 6, 7, 8>>,
     parameter_requested_list |-> <<1, 3>>,
     maximum_accepted_size |-> 1500,
     client_ip_address |-> <<1, 2, 3, 4>>,
     filename |-> <<98, 111, 111, 116>>,
     server_name |-> <<115, 114, 118>>,
     message |-> <<110, 111>>]

\* The options additional_options lists are made of.
ExtraPool ==
    {Option("ServerIdentifier", <<9, 9, 9, 9>>),
     MessageType("Ack"),
     Option("RequestedIpAddress", <<9, 9, 9, 9>>),
     Option("IpAddressLeaseTime", 60),
     Option("NetBiosOverTcpIpNameServer", <<<<10, 0, 0, 2>>>>),
     Option("NetworkInformationServers", <<<<10, 0, 0, 3>>>>),
     Option("Unknown", [tag |-> 224, data |-> <<1>>])}

\* The lists of different options of the pool, in every order.
AllExtraLists ==
    {list \in SeqsOf(ExtraPool, 0, MaxSupplied) :
        \A i, j \in 1..Len(list) : i < j => list[i].kind # list[j].kind}

\* Those of at most n options, for each n.
ExtraListsUpTo ==
    [n \in 0..MaxSupplied |->
        {list : list \in {l \in AllExtraLists : Len(l) <= n}}]

ExtraLists(n) == ExtraListsUpTo[n]

\* The sets of at most n of the named optional arguments.
Chosen(names, n) == {s \in SUBSET names : Cardinality(s) <= n}

Arg(chosen, name) == IF name \in chosen THEN Some(ArgValue[name]) ELSE None

\* Packets as DhcpPacket::try_from hands them to the classification.
ReceivedPackets ==
    {DhcpPacket_new("BootRequest", "Ethernet", 1, 7, 3, "Broadcast", UNSPECIFIED,
                    UNSPECIFIED, UNSPECIFIED, <<10, 0, 0, 1>>, <<0, 1, 2, 3, 4, 5>>,
                    <<>>, <<>>,
                    new_with_options(<<MessageType("Discover"),
                                       Option("RequestedIpAddress", <<1, 2, 3, 4>>),
                                       Option("IpAddressLeaseTime", 3600),
                                       Option("ParameterRequestList", <<1, 3>>),
                                       Option("ClientIdentifier",
                                              [typ |-> 1, data |-> <<0, 1>>]),
                                       Option("MaximumDhcpMessageSize", 1500)>>)),
     DhcpPacket_new("BootReply", "Ethernet", 0, 7, 0, "Unicast", UNSPECIFIED,
                    <<1, 2, 3, 4>>, <<5, 6, 7, 8>>, <<10, 0, 0, 1>>,
                    <<0, 1, 2, 3, 4, 5>>, <<115, 114, 118>>, <<>>,
                    new_with_options(<<MessageType("Offer"),
                                       Option("ServerIdentifier", <<5, 6, 7, 8>>),
                                       Option("IpAddressLeaseTime", 7200),
                                       Option("SubnetMask", <<255, 255, 255, 0>>)>>)),
     DhcpPacket_new("BootRequest", "Ethernet", 1, 7, 3, "Unicast", UNSPECIFIED,
                    <<1, 2, 3, 4>>, <<5, 6, 7, 8>>, <<10, 0, 0, 1>>,
                    <<0, 1, 2, 3, 4, 5>>, <<>>, <<>>,
                    new_with_options(<<MessageType("Request"),
                                       Option("RequestedIpAddress", <<1, 2, 3, 4>>),
                                       Option("ServerIdentifier", <<5, 6, 7, 8>>),
                                       Option("IpAddressLeaseTime", 3600),
                                       Option("ParameterRequestList", <<1, 3>>),
                                       Option("ClientIdentifier",
                                              [typ |-> 1, data |-> <<0, 1>>]),
                                       Option("MaximumDhcpMessageSize", 1500),
                                       Option("VendorClassIdentifier", <<77, 83>>)>>)),
     DhcpPacket_new("BootRequest", "Ethernet", 0, 7, 0, "Unicast", <<1, 2, 3, 4>>,
                    UNSPECIFIED, UNSPECIFIED, UNSPECIFIED, <<0, 1, 2, 3, 4, 5>>,
                    <<>>, <<>>,
                    new_with_options(<<MessageType("Inform"),
                                       Option("IpAddressLeaseTime", 3600),
                                       Option("ParameterRequestList", <<1, 3>>),
                                       Option("ClientIdentifier",
                                              [typ |-> 1, data |-> <<0, 1>>])>>))}
    \cup {DhcpPacket_new("BootRequest", "Ethernet", 0, 7, 0, "Unicast",
                         <<1, 2, 3, 4>>, UNSPECIFIED, UNSPECIFIED, UNSPECIFIED,
                         <<0, 1, 2, 3, 4, 5>>, <<>>, <<>>, new_with_options(list)) :
            list \in {<<MessageType("Release")>>, <<MessageType("Decline")>>,
                      <<MessageType("Ack")>>, <<MessageType("Nak")>>,
                      <<Option("ServerIdentifier", <<5, 6, 7, 8>>)>>,
                      <<Option("Unknown", [tag |-> MESSAGE_TYPE, data |-> <<1>>])>>}}


\* Buffers as a socket hands them to DhcpMessaging::try_from: under a valid header,
\* options closed by an End that hold a MESSAGE_TYPE option of every value from 0
\* to 9, one of no value or none at all; and one buffer of an invalid header.
ReceivedBuffers ==
    {HeaderBytes(CapturedHeader) \o <<MESSAGE_TYPE, 1, v, END>> : v \in 0..9}
    \cup {HeaderBytes(CapturedHeader) \o area :
            area \in {<<PAD, MESSAGE_TYPE, 1, MESSAGE_TYPE_NAK, END, MESSAGE_TYPE, 1,
                        MESSAGE_TYPE_REQUEST>>,
                      <<MESSAGE_TYPE, 0, END>>, <<END>>, <<PAD, END>>,
                      <<REQUESTED_IP_ADDRESS, 4, 1, 2, 3, 4, END>>,
                      <<REQUESTED_IP_ADDRESS, 4, 1, 2, 3, 4, MESSAGE_TYPE, 1,
                        MESSAGE_TYPE_RELEASE, END>>}}
    \cup {HeaderBytes([CapturedHeader EXCEPT !.hlen = 7])
            \o <<MESSAGE_TYPE, 1, MESSAGE_TYPE_DISCOVER, END>>}

\* Packets a caller wraps with From<DhcpPacket>: an Ack and a packet without
\* MESSAGE_TYPE.
WrappedPackets ==
    {packet \in ReceivedPackets :
        \/ option(packet.options, MESSAGE_TYPE) = MessageType("Ack")
        \/ /\ option(packet.options, MESSAGE_TYPE) = NoValue
           /\ option(packet.options, SERVER_IDENTIFIER) # NoValue}
Init ==
    /\ pc = "start"
    /\ msg = NoMsg
    /\ call = NoCall
    /\ supplied = 0
    /\ optval = NoValue
    /\ wire = <<>>
    /\ outcome = NoOutcome
    /\ rewire = NoOutcome
    /\ opts = EmptySlots
    /\ last = NoLast
    /\ chain = <<>>
    /\ heard = NotHeard

\* The optional values still to pass.
Left == MaxSupplied - supplied

\* What the exchange keeps of a message: the call that made it, its role, its xid.
Link(op, wrapper) == [op |-> op, role |-> wrapper.role, xid |-> wrapper.packet.transaction_id]

\* The step every call ends with: the wrapper it returns becomes msg.
Returns(wrapper, a, chosen) ==
    /\ msg' = wrapper
    /\ call' = a
    /\ supplied' = supplied + Cardinality(chosen) + Len(a.additional_options)
    /\ chain' = Append(chain, Link(a.op, wrapper))
    /\ pc' = "talking"
    /\ UNCHANGED <<opts, last, optval, wire, outcome, rewire, heard>>

\* DhcpMessaging::discover(..)
CallDiscover ==
    /\ pc = "start"
    /\ \E client_mac_address \in ClientMacs, random \in Xids,
          chosen \in Chosen({"requested_ip_address", "lease_time", "client_identifier",
                             "vendor_class_identifier", "parameter_requested_list",
                             "maximum_accepted_size"}, Left) :
          \E additional_options \in ExtraLists(Left - Cardinality(chosen)) :
             LET a == [NoCall EXCEPT
                          !.op = "discover",
                          !.random = random,
                          !.client_mac_address = client_mac_address,
                          !.requested_ip_address = Arg(chosen, "requested_ip_address"),
                          !.lease_time = Arg(chosen, "lease_time"),
                          !.client_identifier = Arg(chosen, "client_identifier"),
                          !.vendor_class_identifier =
                              Arg(chosen, "vendor_class_identifier"),
                          !.parameter_requested_list =
                              Arg(chosen, "parameter_requested_list"),
                          !.maximum_accepted_size = Arg(chosen, "maximum_accepted_size"),
                          !.additional_options = additional_options]
             IN Returns(discover(a.client_mac_address, a.requested_ip_address,
                                 a.lease_time, a.client_identifier,
                                 a.vendor_class_identifier, a.parameter_requested_list,
                                 a.maximum_accepted_size, a.additional_options,
                                 a.random),
                        a, chosen)

\* DhcpMessaging::inform(..)
CallInform ==
    /\ pc = "start"
    /\ \E client_mac_address \in ClientMacs, random \in Xids,
          client_ip_address \in ClientIps, broadcast \in BOOLEAN,
          chosen \in Chosen({"client_identifier", "vendor_class_identifier",
                             "parameter_requested_list", "maximum_accepted_size"},
                            Left) :
          \E additional_options \in ExtraLists(Left - Cardinality(chosen)) :
             LET a == [NoCall EXCEPT
                          !.op = "inform",
                          !.random = random,
                          !.client_mac_address = client_mac_address,
                          !.client_ip_address = client_ip_address,
                          !.broadcast = broadcast,
                          !.client_identifier = Arg(chosen, "client_identifier"),
                          !.vendor_class_identifier =
                              Arg(chosen, "vendor_class_identifier"),
                          !.parameter_requested_list =
                              Arg(chosen, "parameter_requested_list"),
                          !.maximum_accepted_size = Arg(chosen, "maximum_accepted_size"),
                          !.additional_options = additional_options]
             IN Returns(inform(a.client_mac_address, a.client_ip_address,
                               a.client_identifier, a.vendor_class_identifier,
                               a.parameter_requested_list, a.maximum_accepted_size,
                               a.broadcast, a.additional_options, a.random),
                        a, chosen)

\* DhcpMessaging::decline(client_mac_address)
CallDecline ==
    /\ pc = "start"
    /\ \E client_mac_address \in ClientMacs, random \in Xids :
          LET a == [NoCall EXCEPT !.op = "decline",
                                  !.random = random,
                                  !.client_mac_address = client_mac_address]
          IN Returns(decline(a.client_mac_address, a.random), a, {})

\* DhcpMessaging::release(client_mac_address, client_ip_address)
CallRelease ==
    /\ pc = "start"
    /\ \E client_mac_address \in ClientMacs, random \in Xids,
          client_ip_address \in ClientIps :
          LET a == [NoCall EXCEPT !.op = "release",
                                  !.random = random,
                                  !.client_mac_address = client_mac_address,
                                  !.client_ip_address = client_ip_address]
          IN Returns(release(a.client_mac_address, a.client_ip_address, a.random),
                     a, {})

\* DhcpMessaging::try_from(packet) on a received packet.  An Err ends the exchange.
Classify ==
    /\ pc = "start"
    /\ \E packet \in ReceivedPackets :
          LET r == DhcpMessaging_try_from(packet)
          IN /\ outcome' = r
             /\ msg' = IF IsOk(r) THEN r.val ELSE NoMsg
             /\ call' = [NoCall EXCEPT !.op = "try_from",
                                       !.self = [role |-> "None", packet |-> packet]]
    /\ chain' = IF IsOk(outcome') THEN <<Link("try_from", msg')>> ELSE <<>>
    /\ pc' = "talking"
    /\ UNCHANGED <<opts, last, optval, wire, rewire, supplied, heard>>


\* DhcpMessaging::try_from(&[u8]) on a received buffer.
ClassifyBytes ==
    /\ pc = "start"
    /\ \E value \in ReceivedBuffers :
          /\ wire' = value
          /\ outcome' = DhcpMessaging_try_from_bytes(value)
          /\ msg' = IF IsOk(outcome') THEN outcome'.val ELSE NoMsg
          /\ call' = [NoCall EXCEPT !.op = "try_from_bytes"]
    /\ chain' = IF IsOk(outcome') THEN <<Link("try_from_bytes", msg')>> ELSE <<>>
    /\ pc' = "talking"
    /\ UNCHANGED <<opts, last, optval, rewire, supplied, heard>>

\* $t::from(packet), for each wrapper type $t of the packet! macro.
Wrap ==
    /\ pc = "start"
    /\ \E role \in MessageTypes, packet \in WrappedPackets :
          /\ msg' = From_DhcpPacket(role, packet)
          /\ call' = [NoCall EXCEPT !.op = "from",
                                    !.self = [role |-> "None", packet |-> packet]]
    /\ chain' = <<Link("from", msg')>>
    /\ pc' = "talking"
    /\ UNCHANGED <<opts, last, optval, wire, outcome, rewire, supplied, heard>>
\* DhcpDiscoverPacket::into_offer(..) on the Discover the exchange is at.
CallIntoOffer ==
    /\ pc = "talking"
    /\ msg.role = "Discover"
    /\ \E lease \in Leases, client_ip_address \in ClientIps,
          server_ip_address \in ServerIps,
          chosen \in Chosen({"filename", "message"}, Left) :
          \E additional_options \in ExtraLists(Left - Cardinality(chosen)) :
             LET a == [NoCall EXCEPT
                          !.op = "into_offer",
                          !.self = msg,
                          !.lease = lease,
                          !.client_ip_address = client_ip_address,
                          !.server_ip_address = server_ip_address,
                          !.filename = Arg(chosen, "filename"),
                          !.message = Arg(chosen, "message"),
                          !.additional_options = additional_options]
             IN Returns(into_offer(a.self, a.lease, a.client_ip_address,
                                   a.server_ip_address, a.filename, a.message,
                                   a.additional_options),
                        a, chosen)

\* DhcpOfferPacket::into_request(..) on the Offer the exchange is at.
CallIntoRequest ==
    /\ pc = "talking"
    /\ msg.role = "Offer"
    /\ \E client_hardware_address \in Macs, seconds \in Seconds,
          broadcast \in BOOLEAN,
          chosen \in Chosen({"client_ip_address", "requested_ip_address",
                             "lease_time", "client_identifier",
                             "vendor_class_identifier", "server_identifier",
                             "parameter_requested_list", "maximum_accepted_size"},
                            Left) :
          \E additional_options \in ExtraLists(Left - Cardinality(chosen)) :
             LET a == [NoCall EXCEPT
                          !.op = "into_request",
                          !.self = msg,
                          !.client_mac_address = client_hardware_address,
                          !.seconds = seconds,
                          !.broadcast = broadcast,
                          !.client_ip_address = Arg(chosen, "client_ip_address"),
                          !.requested_ip_address = Arg(chosen, "requested_ip_address"),
                          !.lease_time = Arg(chosen, "lease_time"),
                          !.client_identifier = Arg(chosen, "client_identifier"),
                          !.vendor_class_identifier =
                              Arg(chosen, "vendor_class_identifier"),
                          !.server_identifier = Arg(chosen, "server_identifier"),
                          !.parameter_requested_list =
                              Arg(chosen, "parameter_requested_list"),
                          !.maximum_accepted_size = Arg(chosen, "maximum_accepted_size"),
                          !.additional_options = additional_options]
             IN Returns(into_request(a.self, a.client_mac_address, a.seconds,
                                     a.client_ip_address, a.broadcast,
                                     a.requested_ip_address, a.lease_time,
                                     a.client_identifier, a.vendor_class_identifier,
                                     a.server_identifier, a.parameter_requested_list,
                                     a.maximum_accepted_size, a.additional_options),
                        a, chosen)

\* DhcpRequestPacket::into_ack(..) on the Request the exchange is at.
CallRequestIntoAck ==
    /\ pc = "talking"
    /\ msg.role = "Request"
    /\ \E lease \in Leases, client_ip_address \in ClientIps,
          server_ip_address \in ServerIps,
          chosen \in Chosen({"filename", "server_name", "message",
                             "vendor_class_identifier"}, Left) :
          \E additional_options \in ExtraLists(Left - Cardinality(chosen)) :
             LET a == [NoCall EXCEPT
                          !.op = "request_into_ack",
                          !.self = msg,
                          !.lease = lease,
                          !.client_ip_address = client_ip_address,
                          !.server_ip_address = server_ip_address,
                          !.filename = Arg(chosen, "filename"),
                          !.server_name = Arg(chosen, "server_name"),
                          !.message = Arg(chosen, "message"),
                          !.vendor_class_identifier =
                              Arg(chosen, "vendor_class_identifier"),
                          !.additional_options = additional_options]
             IN Returns(Request_into_ack(a.self, a.lease, a.client_ip_address,
                                         a.server_ip_address, a.filename,
                                         a.server_name, a.message,
                                         a.vendor_class_identifier,
                                         a.additional_options),
                        a, chosen)

\* DhcpInformPacket::into_ack(..) on the Inform the exchange is at.
CallInformIntoAck ==
    /\ pc = "talking"
    /\ msg.role = "Inform"
    /\ \E client_ip_address \in ClientIps, server_ip_address \in ServerIps,
          chosen \in Chosen({"filename", "server_name", "message",
                             "vendor_class_identifier"}, Left) :
          \E additional_options \in ExtraLists(Left - Cardinality(chosen)) :
             LET a == [NoCall EXCEPT
                          !.op = "inform_into_ack",
                          !.self = msg,
                          !.client_ip_address = client_ip_address,
                          !.server_ip_address = server_ip_address,
                          !.filename = Arg(chosen, "filename"),
                          !.server_name = Arg(chosen, "server_name"),
                          !.message = Arg(chosen, "message"),
                          !.vendor_class_identifier =
                              Arg(chosen, "vendor_class_identifier"),
                          !.additional_options = additional_options]
             IN Returns(Inform_into_ack(a.self, a.client_ip_address,
                                        a.server_ip_address, a.filename,
                                        a.server_name, a.message,
                                        a.vendor_class_identifier,
                                        a.additional_options),
                        a, chosen)

\* DhcpRequestPacket::into_nak(..) on the Request the exchange is at.
CallIntoNak ==
    /\ pc = "talking"
    /\ msg.role = "Request"
    /\ \E server_ip_address \in ServerIps,
          chosen \in Chosen({"message", "client_identifier",
                             "vendor_class_identifier"}, Left) :
          LET a == [NoCall EXCEPT
                       !.op = "into_nak",
                       !.self = msg,
                       !.server_ip_address = server_ip_address,
                       !.message = Arg(chosen, "message"),
                       !.client_identifier = Arg(chosen, "client_identifier"),
                       !.vendor_class_identifier =
                           Arg(chosen, "vendor_class_identifier")]
          IN Returns(into_nak(a.self, a.server_ip_address, a.message,
                              a.client_identifier, a.vendor_class_identifier),
                     a, chosen)

\* Vec::<u8>::from(msg), which takes the wrapper, and DhcpPacket::try_from on the
\* bytes, as the side that receives them calls it.  rewire holds the bytes and
\* heard how the decode ended, with the packet when it returned one.
Send ==
    /\ pc = "talking"
    /\ msg # NoMsg
    /\ \E overflow_checks \in BOOLEAN :
          rewire' = DhcpPacket_into_bytes(msg.packet, overflow_checks)
    /\ heard' = IF ~IsOk(rewire') THEN NotHeard
                ELSE IF IsOk(DhcpPacket_try_from(rewire'.val))
                THEN [res |-> "Ok", packet |-> DhcpPacket_try_from(rewire'.val).val]
                ELSE [res |-> DhcpPacket_try_from(rewire'.val).res, packet |-> <<>>]
    /\ pc' = "sent"
    /\ UNCHANGED <<msg, call, supplied, chain, opts, last, optval, wire, outcome>>

Next ==
    \/ CallDiscover
    \/ CallInform
    \/ CallDecline
    \/ CallRelease
    \/ Classify
    \/ ClassifyBytes
    \/ Wrap
    \/ CallIntoOffer
    \/ CallIntoRequest
    \/ CallRequestIntoAck
    \/ CallInformIntoAck
    \/ CallIntoNak
    \/ Send

Spec == Init /\ [][Next]_vars

(***************************************************************************)
(* The claims about the constructors and the transitions.                  *)
(***************************************************************************)
\* The options of the message the exchange is at.
Options == msg.packet.options

\* The options of the message the last call was made on.
SelfOptions == call.self.packet.options

\* The negotiation options a caller can pass as an argument: tag, argument, variant.
NegotiationArguments ==
    {<<REQUESTED_IP_ADDRESS, "requested_ip_address", "RequestedIpAddress">>,
     <<IP_ADDRESS_LEASE_TIME, "lease_time", "IpAddressLeaseTime">>,
     <<CLIENT_IDENTIFIER, "client_identifier", "ClientIdentifier">>,
     <<VENDOR_CLASS_IDENTIFIER, "vendor_class_identifier", "VendorClassIdentifier">>,
     <<SERVER_IDENTIFIER, "server_identifier", "ServerIdentifier">>,
     <<PARAMETER_REQUEST_LIST, "parameter_requested_list", "ParameterRequestList">>,
     <<MAXIMUM_DHCP_MESSAGE_SIZE, "maximum_accepted_size", "MaximumDhcpMessageSize">>}

\* The caller of the last call passed the option of tag t, as the argument or in
\* the additional options.
SuppliedInCall(t, argument) ==
    \/ call[argument] # None
    \/ \E i \in 1..Len(call.additional_options) : tag(call.additional_options[i]) = t

ConstructorRole ==
    [discover |-> "Discover", inform |-> "Inform", decline |-> "Decline",
     release |-> "Release"]

\* C5: each of discover, inform, decline and release returns a packet whose
\* operation is BootRequest and whose MESSAGE_TYPE option is the constructor's own
\* role: Discover, Inform, Decline and Release respectively.
C5_ConstructorSetsOwnRole ==
    call.op \in DOMAIN ConstructorRole
        => /\ msg.packet.operation = "BootRequest"
           /\ option(Options, MESSAGE_TYPE) = MessageType(ConstructorRole[call.op])

\* C6: a packet built by discover has MESSAGE_TYPE=Discover, flags=Broadcast, the
\* four addresses unspecified and no SERVER_IDENTIFIER, whatever the arguments and
\* the additional options; each of the six optional negotiation options is present
\* only if the caller supplied it.
C6_DiscoverPostcondition ==
    call.op = "discover"
        => /\ option(Options, MESSAGE_TYPE) = MessageType("Discover")
           /\ msg.packet.flags = "Broadcast"
           /\ msg.packet.client = UNSPECIFIED
           /\ msg.packet.your = UNSPECIFIED
           /\ msg.packet.server = UNSPECIFIED
           /\ msg.packet.gateway = UNSPECIFIED
           /\ option(Options, SERVER_IDENTIFIER) = NoValue
           /\ \A n \in NegotiationArguments :
                 (n[1] # SERVER_IDENTIFIER /\ option(Options, n[1]) # NoValue)
                     => SuppliedInCall(n[1], n[2])

\* A Discover whose additional options held a SERVER_IDENTIFIER and a MESSAGE_TYPE.
C6_DiscoverGivenServerIdentifier ==
    /\ call.op = "discover"
    /\ \E i, j \in 1..Len(call.additional_options) :
          /\ call.additional_options[i].kind = "ServerIdentifier"
          /\ call.additional_options[j].kind = "MessageType"

\* C7: into_offer yields operation=BootReply, your=offered_ip, server=server_ip,
\* MESSAGE_TYPE=Offer, SERVER_IDENTIFIER=server_ip, IP_ADDRESS_LEASE_TIME=lease and
\* none of REQUESTED_IP_ADDRESS, PARAMETER_REQUEST_LIST, CLIENT_IDENTIFIER,
\* MAXIMUM_DHCP_MESSAGE_SIZE; every other extra option is present in the Offer with
\* the caller's value.
C7_IntoOfferPostcondition ==
    call.op = "into_offer"
        => /\ msg.packet.operation = "BootReply"
           /\ msg.packet.your = call.client_ip_address
           /\ msg.packet.server = call.server_ip_address
           /\ option(Options, MESSAGE_TYPE) = MessageType("Offer")
           /\ option(Options, SERVER_IDENTIFIER)
                 = Option("ServerIdentifier", call.server_ip_address)
           /\ option(Options, IP_ADDRESS_LEASE_TIME)
                 = Option("IpAddressLeaseTime", call.lease)
           /\ \A t \in {REQUESTED_IP_ADDRESS, PARAMETER_REQUEST_LIST,
                        CLIENT_IDENTIFIER, MAXIMUM_DHCP_MESSAGE_SIZE} :
                 option(Options, t) = NoValue
           /\ \A i \in 1..Len(call.additional_options) :
                 LET extra == call.additional_options[i]
                 IN (/\ tag(extra) \notin {REQUESTED_IP_ADDRESS, PARAMETER_REQUEST_LIST,
                                           CLIENT_IDENTIFIER, MAXIMUM_DHCP_MESSAGE_SIZE,
                                           MESSAGE_TYPE, SERVER_IDENTIFIER,
                                           IP_ADDRESS_LEASE_TIME}
                     /\ ~(extra.kind = "Message" /\ call.message # None))
                        => \E t \in 0..(OPTIONS_SIZE - 1) : option(Options, t) = extra

\* C8: after into_request each of the seven negotiation options is present in the
\* Request only if the caller supplied it in this call, as an argument or in the
\* additional options; one that was only on the Offer is not carried.
C8_OnlySuppliedInRequest ==
    call.op = "into_request"
        => \A n \in NegotiationArguments :
              option(Options, n[1]) # NoValue => SuppliedInCall(n[1], n[2])

\* C8 as amended: after into_request each of the seven negotiation options is
\* present in the Request only if the caller supplied it in this call or the Offer
\* already held it, and one passed as an argument has the caller's value.
C8_SuppliedOrCarriedInRequest ==
    call.op = "into_request"
        => \A n \in NegotiationArguments :
              /\ option(Options, n[1]) # NoValue
                    => (SuppliedInCall(n[1], n[2]) \/ option(SelfOptions, n[1]) # NoValue)
              /\ call[n[2]] # None
                    => option(Options, n[1]) = Option(n[3], call[n[2]][1])

\* A Request that carries the Offer's SERVER_IDENTIFIER, the caller having passed
\* none, and the caller's lease time in place of the Offer's.
C8_RequestCarriesOfferOption ==
    /\ call.op = "into_request"
    /\ call.server_identifier = None
    /\ \A i \in 1..Len(call.additional_options) :
          tag(call.additional_options[i]) # SERVER_IDENTIFIER
    /\ option(Options, SERVER_IDENTIFIER) # NoValue
    /\ call.lease_time # None
    /\ option(SelfOptions, IP_ADDRESS_LEASE_TIME) # NoValue
    /\ option(SelfOptions, IP_ADDRESS_LEASE_TIME) # option(Options, IP_ADDRESS_LEASE_TIME)

\* C9: into_request yields operation=BootRequest, MESSAGE_TYPE=Request, the
\* hardware address and the seconds of the arguments, your, server and gateway
\* unspecified, and flags Broadcast when broadcast is true and Unicast otherwise.
C9_IntoRequestHeader ==
    call.op = "into_request"
        => /\ msg.packet.operation = "BootRequest"
           /\ option(Options, MESSAGE_TYPE) = MessageType("Request")
           /\ msg.packet.client_hardware = call.client_mac_address
           /\ msg.packet.seconds = call.seconds
           /\ msg.packet.your = UNSPECIFIED
           /\ msg.packet.server = UNSPECIFIED
           /\ msg.packet.gateway = UNSPECIFIED
           /\ msg.packet.flags = IF call.broadcast THEN "Broadcast" ELSE "Unicast"

\* A broadcast Request made of an Offer that came through a relay, for another
\* hardware address than the Offer's.
C9_RequestFromRelayedOffer ==
    /\ call.op = "into_request"
    /\ call.broadcast
    /\ call.self.packet.flags = "Unicast"
    /\ call.self.packet.gateway # UNSPECIFIED
    /\ call.self.packet.your # UNSPECIFIED
    /\ call.self.packet.client_hardware # call.client_mac_address

\* C10: into_nak yields operation=BootReply, your and server unspecified,
\* MESSAGE_TYPE=Nak, SERVER_IDENTIFIER the given server address and none of
\* REQUESTED_IP_ADDRESS, IP_ADDRESS_LEASE_TIME, PARAMETER_REQUEST_LIST,
\* MAXIMUM_DHCP_MESSAGE_SIZE; MESSAGE is the supplied message when one is supplied,
\* and CLIENT_IDENTIFIER is present exactly when the caller supplies one, with the
\* caller's value.
C10_IntoNakPostcondition ==
    call.op = "into_nak"
        => /\ msg.packet.operation = "BootReply"
           /\ msg.packet.your = UNSPECIFIED
           /\ msg.packet.server = UNSPECIFIED
           /\ option(Options, MESSAGE_TYPE) = MessageType("Nak")
           /\ option(Options, SERVER_IDENTIFIER)
                 = Option("ServerIdentifier", call.server_ip_address)
           /\ \A t \in {REQUESTED_IP_ADDRESS, IP_ADDRESS_LEASE_TIME,
                        PARAMETER_REQUEST_LIST, MAXIMUM_DHCP_MESSAGE_SIZE} :
                 option(Options, t) = NoValue
           /\ call.message # None
                 => option(Options, MESSAGE) = Option("Message", call.message[1])
           /\ (option(Options, CLIENT_IDENTIFIER) # NoValue)
                 <=> (call.client_identifier # None)
           /\ call.client_identifier # None
                 => option(Options, CLIENT_IDENTIFIER)
                       = Option("ClientIdentifier", call.client_identifier[1])

\* A Nak with a message and without a client identifier, made of a Request that
\* held a client identifier and a your address.
C10_NakOfRequestWithClientIdentifier ==
    /\ call.op = "into_nak"
    /\ call.message # None
    /\ call.client_identifier = None
    /\ option(SelfOptions, CLIENT_IDENTIFIER) # NoValue
    /\ option(SelfOptions, REQUESTED_IP_ADDRESS) # NoValue
    /\ call.self.packet.your # UNSPECIFIED

(***************************************************************************)
(* The claims about the acknowledgements and the classification.           *)
(***************************************************************************)
\* The four negotiation options both into_ack remove.
StrippedByAck ==
    {REQUESTED_IP_ADDRESS, PARAMETER_REQUEST_LIST, CLIENT_IDENTIFIER,
     MAXIMUM_DHCP_MESSAGE_SIZE}

\* The tags the last into_ack set itself.
SetByAck ==
    {SERVER_IDENTIFIER, MESSAGE_TYPE}
        \cup (IF call.op = "request_into_ack" THEN {IP_ADDRESS_LEASE_TIME} ELSE {})
        \cup (IF call.message # None THEN {MESSAGE} ELSE {})
        \cup (IF call.vendor_class_identifier # None
              THEN {VENDOR_CLASS_IDENTIFIER} ELSE {})

\* The indexes of the additional options of the last call stored in slot t.
ExtrasAt(t) ==
    {i \in 1..Len(call.additional_options) : tag(call.additional_options[i]) = t}

Max(S) == CHOOSE x \in S : \A y \in S : y <= x

\* The slots the source packet of the last call, its additional options or the
\* message it returned occupy: every other slot is empty before and after.
SlotsOfCall ==
    occupied(SelfOptions) \cup occupied(Options)
        \cup {tag(call.additional_options[i]) : i \in 1..Len(call.additional_options)}

\* C11: both into_ack yield operation=BootReply, MESSAGE_TYPE=Ack,
\* SERVER_IDENTIFIER equal to the given server address and none of
\* REQUESTED_IP_ADDRESS, PARAMETER_REQUEST_LIST, CLIENT_IDENTIFIER,
\* MAXIMUM_DHCP_MESSAGE_SIZE, whatever the source packet and the additional
\* options held; the Ack of a Request also has IP_ADDRESS_LEASE_TIME equal to the
\* given lease.
C11_IntoAckPostcondition ==
    call.op \in {"request_into_ack", "inform_into_ack"}
        => /\ msg.role = "Ack"
           /\ msg.packet.operation = "BootReply"
           /\ option(Options, MESSAGE_TYPE) = MessageType("Ack")
           /\ option(Options, SERVER_IDENTIFIER)
                 = Option("ServerIdentifier", call.server_ip_address)
           /\ \A t \in StrippedByAck : option(Options, t) = NoValue
           /\ call.op = "request_into_ack"
                 => option(Options, IP_ADDRESS_LEASE_TIME)
                       = Option("IpAddressLeaseTime", call.lease)

\* An Ack of a Request that held the four negotiation options, the caller passing
\* another SERVER_IDENTIFIER and another lease time in the additional options.
C11_AckOfRequestGivenOtherServer ==
    /\ call.op = "request_into_ack"
    /\ \A t \in StrippedByAck : option(SelfOptions, t) # NoValue
    /\ ExtrasAt(SERVER_IDENTIFIER) # {}
    /\ ExtrasAt(IP_ADDRESS_LEASE_TIME) # {}

RoleOfByte ==
    <<"Discover", "Offer", "Request", "Decline", "Ack", "Nak", "Release", "Inform">>

\* The payload of the first MESSAGE_TYPE option of an options area, looked for
\* option after option up to the End.
RECURSIVE WireMessageType(_)
WireMessageType(area) ==
    IF area = <<>> THEN [found |-> FALSE, data |-> <<>>]
    ELSE IF area[1] = PAD THEN WireMessageType(Tail(area))
    ELSE IF area[1] = END THEN [found |-> FALSE, data |-> <<>>]
    ELSE IF Len(area) < 2 \/ Len(area) < 2 + area[2]
         THEN [found |-> FALSE, data |-> <<>>]
    ELSE IF area[1] = MESSAGE_TYPE
         THEN [found |-> TRUE, data |-> SubSeq(area, 3, 2 + area[2])]
    ELSE WireMessageType(SubSeq(area, 3 + area[2], Len(area)))

\* The last call classified a buffer whose header is a valid one.
ClassifiedValidHeader ==
    /\ call.op = "try_from_bytes"
    /\ Len(wire) >= OPTIONS_START
    /\ SubSeq(wire, 1, OPTIONS_START) = HeaderBytes(CapturedHeader)

\* What the classification of a packet is to return.
ClassifiedAs(packet) ==
    LET o == option(packet.options, MESSAGE_TYPE)
    IN IF o.kind = "MessageType"
       THEN Ok([role |-> o.val, packet |-> packet])
       ELSE Err(DhcpMessagePacketError)

\* C13: DhcpMessaging::try_from, of a DhcpPacket or of raw bytes, returns the
\* variant whose role is the value of the MESSAGE_TYPE option, for each of the
\* eight message types, and fails with DhcpMessagePacketError when the option is
\* absent or its value is none of the eight.
C13_ClassifiesOrMessagePacketError ==
    /\ call.op = "try_from" => outcome = ClassifiedAs(call.self.packet)
    /\ ClassifiedValidHeader
          => LET m == WireMessageType(SubSeq(wire, OPTIONS_START + 1, Len(wire)))
             IN IF m.found /\ Len(m.data) >= 1 /\ m.data[1] \in 1..8
                THEN IsOk(outcome) /\ outcome.val.role = RoleOfByte[m.data[1]]
                ELSE outcome = Err(DhcpMessagePacketError)

\* C13 as amended: of a DhcpPacket, try_from returns the variant whose role is the
\* value of the MESSAGE_TYPE option and fails with DhcpMessagePacketError when the
\* slot is empty or holds no MessageType; of raw bytes, it does the same with the
\* packet the bytes decode to, and bytes whose MESSAGE_TYPE option has no value or a
\* value that is none of the eight do not decode: OptionParseError(53) is returned.
C13_ClassifiesDecodedPacket ==
    /\ call.op = "try_from" => outcome = ClassifiedAs(call.self.packet)
    /\ (call.op = "try_from_bytes" /\ IsOk(DhcpPacket_try_from(wire)))
          => LET m == WireMessageType(SubSeq(wire, OPTIONS_START + 1, Len(wire)))
             IN IF m.found
                THEN IsOk(outcome) /\ outcome.val.role = RoleOfByte[m.data[1]]
                ELSE outcome = Err(DhcpMessagePacketError)
    /\ ClassifiedValidHeader
          => LET m == WireMessageType(SubSeq(wire, OPTIONS_START + 1, Len(wire)))
             IN (m.found /\ (m.data = <<>> \/ m.data[1] \notin 1..8))
                   => outcome = Err(OptionParseError(MESSAGE_TYPE))

\* A buffer whose MESSAGE_TYPE option has the value 9 was classified.
C13_BytesOfUnrecognizedType ==
    /\ ClassifiedValidHeader
    /\ SubSeq(wire, OPTIONS_START + 1, Len(wire)) = <<MESSAGE_TYPE, 1, 9, END>>
    /\ outcome.res = "Err"

\* C14: every role wrapper the public API produces (the client constructors, the
\* classification, the five transitions and the From<DhcpPacket> conversions) owns
\* a packet whose MESSAGE_TYPE option is present and equals the wrapper's role.
C14_WrapperRoleIsMessageType ==
    msg # NoMsg => option(Options, MESSAGE_TYPE) = MessageType(msg.role)

(***************************************************************************)
(* The claims about the option set.                                        *)
(***************************************************************************)
\* The tag bytes the encoded options of a serialized set start with, in the order
\* they were emitted.
RECURSIVE EmittedTags(_)
EmittedTags(bytes) ==
    IF bytes = <<>> THEN <<>>
    ELSE IF bytes[1] \in {PAD, END} THEN <<bytes[1]>> \o EmittedTags(Tail(bytes))
    ELSE <<bytes[1]>> \o EmittedTags(SubSeq(bytes, 3 + bytes[2], Len(bytes)))

\* The list in another order.
Reordered(list) ==
    {[i \in 1..Len(list) |-> list[p[i]]] : p \in Permutations(1..Len(list))}

\* C15: to_bytes emits the occupied options in strictly ascending order of the tag
\* byte each encoded option starts with, one option for each occupied slot and
\* nothing for an empty one, whatever upsert, upsert_option, remove and merge did
\* before; two sets built from the same different options in different orders
\* serialize to the same bytes.
C15_AscendingTagOrder ==
    /\ last.op = "to_bytes"
          => LET tags == EmittedTags(wire)
             IN /\ Len(tags) = Cardinality(occupied(last.before))
                /\ \A i, j \in 1..Len(tags) : i < j => tags[i] < tags[j]
    /\ (/\ last.op = "new_with_options"
        /\ \A i, j \in 1..Len(last.list) : i < j => last.list[i].kind # last.list[j].kind)
          => \A list \in Reordered(last.list) :
                DhcpOptions_to_bytes(new_with_options(list)) = DhcpOptions_to_bytes(opts)

\* C16: upsert(o) makes option(t) return o for t the tag of o; upsert_option(None)
\* leaves the set as it was; remove(t) makes option(t) absent; merge(other) makes
\* every tag occupied in other hold other's value; and each leaves every other slot
\* exactly as it was.
C16_OperationsAndTheirFrame ==
    /\ last.op = "upsert"
          => /\ option(opts, tag(last.option)) = last.option
             /\ \A t \in 0..(OPTIONS_SIZE - 1) \ {tag(last.option)} :
                   option(opts, t) = option(last.before, t)
    /\ (last.op = "upsert_option" /\ last.option = NoValue) => opts = last.before
    /\ last.op = "remove"
          => /\ option(opts, last.tag) = NoValue
             /\ \A t \in 0..(OPTIONS_SIZE - 1) \ {last.tag} :
                   option(opts, t) = option(last.before, t)
    /\ last.op = "merge"
          => \A t \in 0..(OPTIONS_SIZE - 1) :
                option(opts, t) = IF option(last.other, t) # NoValue
                                  THEN option(last.other, t)
                                  ELSE option(last.before, t)

\* The options of a stream up to its End, as the format lays them out: a Pad is
\* one byte, any other tag is followed by a length byte and that many bytes.
RECURSIVE StreamOptions(_)
StreamOptions(bytes) ==
    IF bytes = <<>> THEN [ended |-> FALSE, items |-> <<>>]
    ELSE IF bytes[1] = PAD THEN StreamOptions(Tail(bytes))
    ELSE IF bytes[1] = END THEN [ended |-> TRUE, items |-> <<>>]
    ELSE IF Len(bytes) < 2 \/ Len(bytes) < 2 + bytes[2]
         THEN [ended |-> FALSE, items |-> <<>>]
    ELSE LET r == StreamOptions(SubSeq(bytes, 3 + bytes[2], Len(bytes)))
         IN [ended |-> r.ended,
             items |-> <<[tag |-> bytes[1], data |-> SubSeq(bytes, 3, 2 + bytes[2])]>>
                          \o r.items]

\* An option of a stream, decoded by its tag.
Decoded(item) == DhcpOption_from_bytes(item.tag, Len(item.data), item.data)

\* C17: from_bytes skips every Pad as one byte, stops at the first End without
\* reading a length and ignores what follows it, and reads one length byte and that
\* many payload bytes for any other tag; the set it returns holds every option that
\* came before the End, decoded by its tag.
C17_FromBytesHoldsEveryOption ==
    last.op = "from_bytes"
        => LET s == StreamOptions(wire)
           IN /\ IsOk(outcome)
                    => /\ s.ended
                       /\ \A i \in 1..Len(s.items) :
                             option(opts, s.items[i].tag) = Decoded(s.items[i]).val
              /\ (s.ended /\ \A i \in 1..Len(s.items) : IsOk(Decoded(s.items[i])))
                    => IsOk(outcome)

\* C17 as amended: from_bytes skips every Pad as one byte, stops at the first End
\* without reading a length and ignores what follows it, and reads one length byte
\* and that many payload bytes for any other tag; the set it returns holds, for
\* every tag that came before the End, the last option of that tag, decoded by its
\* tag.
C17_FromBytesHoldsLastOfEachTag ==
    last.op = "from_bytes"
        => LET s == StreamOptions(wire)
           IN /\ IsOk(outcome)
                    => /\ s.ended
                       /\ \A i \in 1..Len(s.items) :
                             (\A j \in (i + 1)..Len(s.items) :
                                 s.items[j].tag # s.items[i].tag)
                                => option(opts, s.items[i].tag) = Decoded(s.items[i]).val
              /\ (s.ended /\ \A i \in 1..Len(s.items) : IsOk(Decoded(s.items[i])))
                    => IsOk(outcome)

\* A stream of two options of one tag and of different values, with bytes after
\* its End, was decoded.
C17_StreamOfTwoOfOneTag ==
    /\ last.op = "from_bytes"
    /\ IsOk(outcome)
    /\ LET s == StreamOptions(wire)
       IN /\ Len(s.items) = 2
          /\ s.items[1].tag = s.items[2].tag
          /\ s.items[1].data # s.items[2].data
    /\ wire[Len(wire)] # END


(***************************************************************************)
(* The claims about the payloads that come off the wire.                   *)
(***************************************************************************)
\* The 16-bit value a payload starts with, most significant byte first.
ValueOf16(data) == 256 * data[1] + data[2]

\* C18: decoding a payload of option 22 (Maximum-Datagram-Reassembly-Size) or 57
\* (Maximum-DHCP-Message-Size) that holds a 16-bit value fails with
\* OptionInvalidValueError carrying the tag exactly when the value is below 576, and
\* returns the option with that value when it is 576 or more; decoding a payload of
\* option 37 (TCP-Default-TTL) that holds a value fails with OptionInvalidValueError
\* carrying the tag when the value is below 1, and returns the option with that
\* value otherwise.
C18_ValueConstraints ==
    /\ (/\ last.op = "from_bytes"
        /\ last.tag \in {MAXIMUM_DATAGRAM_REASSEMBLY_SIZE, MAXIMUM_DHCP_MESSAGE_SIZE}
        /\ Len(wire) >= 2)
          => IF ValueOf16(wire) < 576
             THEN outcome = Err(OptionInvalidValueError(last.tag))
             ELSE /\ IsOk(outcome)
                  /\ optval = Option(IF last.tag = MAXIMUM_DATAGRAM_REASSEMBLY_SIZE
                                     THEN "MaximumDatagramReassemblySize"
                                     ELSE "MaximumDhcpMessageSize", ValueOf16(wire))
    /\ (/\ last.op = "from_bytes"
        /\ last.tag = TCP_DEFAULT_TTL
        /\ Len(wire) >= 1)
          => IF wire[1] < 1
             THEN outcome = Err(OptionInvalidValueError(last.tag))
             ELSE /\ IsOk(outcome)
                  /\ optval = Option("TcpDefaultTTL", wire[1])

\* A payload of option 57 holding 576, the least value accepted, was decoded.
C18_DecodedLeastAccepted ==
    /\ last.op = "from_bytes"
    /\ last.tag = MAXIMUM_DHCP_MESSAGE_SIZE
    /\ wire = <<2, 64>>
    /\ IsOk(outcome)
    /\ optval.val = 576

\* The bytes the format gives an element of each list type.
ChunkSize(type) == CASE type = "ipv4vec" -> 4 [] type = "pairs" -> 8 [] type = "u16vec" -> 2

\* The chunk of a payload that the element at index i of the list is read from.
ChunkAt(data, size, i) == SubSeq(data, (i - 1) * size + 1, i * size)

\* The element the format lays out in a chunk of the payload type.
ElementOf(type, chunk) ==
    CASE type = "ipv4vec" -> chunk
      [] type = "pairs" -> <<SubSeq(chunk, 1, 4), SubSeq(chunk, 5, 8)>>
      [] type = "u16vec" -> ValueOf16(chunk)

\* C19: decoding an IPv4 list, an (IPv4, IPv4) pair list or a 16-bit integer list
\* fails with OptionParseError carrying the tag whenever the payload length is not
\* a multiple of 4, 8 or 2 respectively, and otherwise returns one element for each
\* 4-, 8- or 2-byte chunk, in payload order.
C19_ListsByChunks ==
    (last.op = "try_from_option" /\ last.option.kind \in {"ipv4vec", "pairs", "u16vec"})
        => LET size == ChunkSize(last.option.kind)
           IN IF Len(wire) % size # 0
              THEN outcome = Err(OptionParseError(last.tag))
              ELSE /\ IsOk(outcome)
                   /\ Len(optval.val) = Len(wire) \div size
                   /\ \A i \in 1..Len(optval.val) :
                         optval.val[i] = ElementOf(optval.kind, ChunkAt(wire, size, i))

\* A payload of two pairs of addresses was decoded as a pair list.
C19_DecodedTwoPairs ==
    /\ last.op = "try_from_option"
    /\ optval.kind = "pairs"
    /\ Len(wire) = 16
    /\ IsOk(outcome)
    /\ Len(optval.val) = 2

(***************************************************************************)
(* The claim about the hardware address of a packet.                       *)
(***************************************************************************)
\* The octets of the hardware address in a buffer whose length byte is 6 or 8.
HardwareOctets(bytes) == SubSeq(bytes, 29, 28 + bytes[3])

C21_OneCopyForEachServer ==
    (last.op = "into_bytes_with_server_ips" /\ IsOk(rewire))
        => /\ DOMAIN last.other = {last.list[i] : i \in 1..Len(last.list)}
           /\ \A ip \in DOMAIN last.other :
                 /\ Len(last.other[ip]) = Len(rewire.val)
                 /\ \A n \in 1..Len(rewire.val) :
                       last.other[ip][n] = IF n \in 21..24 THEN ip[n - 20]
                                           ELSE rewire.val[n]

\* A packet was copied for a list that names a server more than once.
C21_CopiedForRepeatedServer ==
    /\ last.op = "into_bytes_with_server_ips"
    /\ IsOk(rewire)
    /\ Len(last.list) > Cardinality(DOMAIN last.other)
    /\ Cardinality(DOMAIN last.other) >= 1

(***************************************************************************)
(* The claims about the sub-options, the booleans and the integers.        *)
(***************************************************************************)
\* A payload of relay agent sub-options in which one declares more bytes than
\* remain after its two-byte header, every sub-option before it being whole.
RECURSIVE DeclaresTooMuch(_)
DeclaresTooMuch(bytes) ==
    IF Len(bytes) < 2 THEN FALSE
    ELSE IF bytes[2] > Len(bytes) - 2 THEN TRUE
    ELSE DeclaresTooMuch(SubSeq(bytes, 3 + bytes[2], Len(bytes)))

\* C22: decoding a Relay Agent Information payload in which a sub-option declares a
\* sub_len larger than the number of bytes that remain after its two-byte header
\* returns OptionParseError carrying the tag; the decode never panics.
C22_RelaySubLenChecked ==
    (last.op = "try_from_option" /\ last.option.kind = "relay")
        => /\ outcome.res # "Panic"
           /\ DeclaresTooMuch(wire) => outcome = Err(OptionParseError(last.tag))

\* C23: decoding a boolean succeeds only when the payload is exactly one byte equal
\* to 0 (false) or 1 (true); an empty payload, a first byte other than 0 or 1 and a
\* payload longer than one byte all yield OptionParseError carrying the tag.
C23_BoolIsOneByte ==
    (last.op = "try_from_option" /\ last.option.kind = "bool")
        => IF wire \in {<<0>>, <<1>>}
           THEN IsOk(outcome) /\ optval.val = (wire = <<1>>)
           ELSE outcome = Err(OptionParseError(last.tag))

\* The bytes of each integer type.
WidthOf(type) == CASE type = "u8" -> 1 [] type = "u16" -> 2 [] type \in {"u32", "i32"} -> 4

\* The number four bytes stand for, most significant first, as unsigned below 2^31
\* and as two's complement from there.
ValueOf32(b) ==
    IF b[1] < 128 THEN ((b[1] * 256 + b[2]) * 256 + b[3]) * 256 + b[4]
    ELSE (((b[1] - 256) * 256 + b[2]) * 256 + b[3]) * 256 + b[4]

\* C24: decoding an 8-, 16- or 32-bit unsigned or a 32-bit signed integer reads the
\* value big-endian from its fixed width, and a payload with fewer bytes than that
\* width, the empty payload included, yields OptionParseError carrying the tag as a
\* returned error.
C24_IntegersByWidth ==
    (last.op = "try_from_option" /\ last.option.kind \in {"u8", "u16", "u32", "i32"})
        => IF Len(wire) < WidthOf(last.option.kind)
           THEN outcome = Err(OptionParseError(last.tag))
           ELSE /\ IsOk(outcome)
                /\ optval.val = CASE last.option.kind = "u8" -> wire[1]
                                  [] last.option.kind = "u16" -> ValueOf16(wire)
                                  [] OTHER -> ValueOf32(wire)

(***************************************************************************)
(* The claim about the slot an option is held in.                          *)
(***************************************************************************)
\* C25: in every DhcpOptions reachable through construction from a list,
\* from_bytes, upsert, upsert_option, merge and remove, an occupied slot i holds an
\* option whose tag() is i, whose variant is the one DhcpOption::from_bytes gives
\* tag i, and whose to_bytes() output starts with byte i.
C25_SlotHoldsItsTag ==
    \A i \in occupied(opts) :
        /\ tag(opts[i]) = i
        /\ i \in PlainTags => opts[i].kind = from_bytes_arm(i).variant
        /\ DhcpOption_to_bytes(opts[i])[1] = i

(***************************************************************************)
(* The claim about the accessor of the requested parameters.               *)
(***************************************************************************)
\* C30: parameter_request_list() returns the payload of the
\* PARAMETER_REQUEST_LIST option whenever that option is in the set and None
\* exactly when it is absent, so it always agrees with
\* option(PARAMETER_REQUEST_LIST).
C30_ParameterRequestListAgrees ==
    IF option(opts, PARAMETER_REQUEST_LIST) = NoValue
    THEN parameter_request_list(opts) = NoValue
    ELSE parameter_request_list(opts) = [kind |-> "Some", val |-> option(opts, PARAMETER_REQUEST_LIST).val]

(***************************************************************************)
(* The claims about whole exchanges.                                       *)
(***************************************************************************)
\* The transition methods the role wrappers offer.
Transition ==
    \/ CallIntoOffer
    \/ CallIntoRequest
    \/ CallRequestIntoAck
    \/ CallInformIntoAck
    \/ CallIntoNak

RoleEdges ==
    {<<"Discover", "Offer">>, <<"Offer", "Request">>, <<"Request", "Ack">>,
     <<"Request", "Nak">>, <<"Inform", "Ack">>}

TerminalRoles == {"Ack", "Nak", "Release", "Decline"}

\* C26: from a message a client constructor made, the transitions of the role
\* wrappers follow only the edges Discover->Offer, Offer->Request, Request->Ack,
\* Request->Nak and Inform->Ack; Ack, Nak, Release and Decline offer no
\* transition, and so an exchange begun with discover is at Ack or Nak after
\* exactly three transitions and one begun with inform after exactly one.
C26_RolesFollowTheEdges ==
    (chain # <<>> /\ chain[1].op \in {"discover", "inform", "decline", "release"})
       => /\ \A i \in 2..Len(chain) : <<chain[i - 1].role, chain[i].role>> \in RoleEdges
          /\ msg.role = chain[Len(chain)].role
          /\ (pc = "talking" /\ msg.role \in TerminalRoles) => ~ENABLED Transition
          /\ chain[1].op = "discover"
                => (msg.role \in TerminalRoles <=> Len(chain) - 1 = 3)
          /\ chain[1].op = "inform"
                => (msg.role \in TerminalRoles <=> Len(chain) - 1 = 1)

\* An exchange begun with discover has ended with a Nak.
C26_DiscoverEndedWithNak ==
    /\ pc = "talking"
    /\ Len(chain) = 4
    /\ chain[1].op = "discover"
    /\ chain[4].role = "Nak"
    /\ ~ENABLED Transition

\* C29: every transition leaves the transaction id of the packet as it was, and
\* into_offer, both into_ack and into_nak also leave the client hardware address,
\* the flags and the gateway address as they were; so every message of an exchange
\* has the transaction id of its first message.
C29_TransitionsKeepTheXid ==
    /\ call.op \in {"into_offer", "into_request", "request_into_ack", "inform_into_ack", "into_nak"}
          => msg.packet.transaction_id = call.self.packet.transaction_id
    /\ call.op \in {"into_offer", "request_into_ack", "inform_into_ack", "into_nak"}
          => /\ msg.packet.client_hardware = call.self.packet.client_hardware
             /\ msg.packet.flags = call.self.packet.flags
             /\ msg.packet.gateway = call.self.packet.gateway
    /\ \A i \in 1..Len(chain) : chain[i].xid = chain[1].xid

\* An exchange begun with discover has ended with the Ack of a Request that asked
\* for a unicast answer.
C29_AckOfUnicastRequest ==
    /\ Len(chain) = 4
    /\ chain[1].op = "discover"
    /\ chain[1].xid # 0
    /\ call.op = "request_into_ack"
    /\ call.self.packet.flags = "Unicast"

(***************************************************************************)
(* The claims about the bytes of a built message.                          *)
(***************************************************************************)
ClientConstructors == {"discover", "inform", "decline", "release"}

\* C27: every message the constructors and the transitions produce serializes to
\* bytes that DhcpPacket::try_from decodes, into a packet with the same header
\* fields and the same options.
C27_BuiltMessageIsReadable ==
    (pc = "sent" /\ chain[1].op \in ClientConstructors)
       => /\ IsOk(rewire)
          /\ heard.res = "Ok"
          /\ heard.packet = msg.packet

\* C28: for every packet DhcpPacket::new builds, whatever the length of the server
\* hostname and of the boot filename, serialization emits exactly 240 bytes before
\* the options: the hostname field is bytes 44 to 107, the filename field bytes
\* 108 to 235, and the magic cookie is at bytes 236 to 239.
C28_HeaderIs240Bytes ==
    pc = "serialized"
       => /\ IsOk(rewire)
          /\ Len(rewire.val) = OPTIONS_START + Len(DhcpOptions_to_bytes(outcome.val.options))
          /\ Slice(rewire.val, 236, 240) = DHCP_COOKIE
          /\ Len(outcome.val.server_hostname) <= 64
                => Slice(rewire.val, 44, 108)
                     = outcome.val.server_hostname \o Zeroes(64 - Len(outcome.val.server_hostname))
          /\ Len(outcome.val.filename) <= 128
                => Slice(rewire.val, 108, 236)
                     = outcome.val.filename \o Zeroes(128 - Len(outcome.val.filename))
====
